---- MODULE Spec2Model ----
(***************************************************************************)
(* Browser Inspector MCP server (src/src/index.ts).                        *)
(*                                                                         *)
(* The source file holds two definitions of the server.  The first         *)
(* (lines 1-962) injects the toggle-button engine; the second (lines       *)
(* 964-1801) injects the floating-icon engine.  The driver half            *)
(* (launch / inspect / get info / modify / close) is the same in both,     *)
(* except that the second getElementInfo also reads the message slot.      *)
(*                                                                         *)
(*   Spec        the toggle-button engine in a page under the operator's   *)
(*               gestures                                                  *)
(*   SpecDriver  the driver's requests, run to completion one at a time,   *)
(*               around that engine                                        *)
(*   SpecFloat   the floating-icon engine in a page                        *)
(*   SpecAsync   launch and close requests whose handlers overlap          *)
(***************************************************************************)
EXTENDS Integers, Sequences, FiniteSets, TLC

\* Bounds of the model.
MaxInject == 2
MaxDialogs == 2
MaxTimers == 2
MaxCalls == 2
MaxBrowsers == 3

(***************************************************************************)
(* Nodes.  A node is [k |-> kind, g |-> number]: a page element numbered   *)
(* in document order, or a node created by the g-th injection.             *)
(***************************************************************************)
NullT == [k |-> "null", g |-> 0]
PageT(n) == [k |-> "page", g |-> n]
N(kind, gen) == [k |-> kind, g |-> gen]

\* The page under inspection: body > (div.box > button#go), div
PageIds == {1, 2, 3}
PageElems == {PageT(n) : n \in PageIds}
PageParent(n) == IF n = 2 THEN 1 ELSE 0
PageTag(n) == IF n = 2 THEN "button" ELSE "div"
PageId(n) == IF n = 2 THEN "go" ELSE ""
PageClasses(n) == IF n = 1 THEN <<"box">> ELSE <<>>

\* Kinds of node the engine appends to body, and the nodes inside them.
BodyKinds == {"overlay", "info", "dialog", "toggle", "devsel", "highlight"}
DialogParts == {"dialog", "cancel", "submit"}
DevselParts == {"devsel", "dropdown", "apply"}

\* The body child a node lives in.
Holder(t) ==
  IF t.k \in DialogParts THEN N("dialog", t.g)
  ELSE IF t.k \in DevselParts THEN N("devsel", t.g)
  ELSE t

RECURSIVE PageAncestor(_, _)
PageAncestor(a, b) ==
  IF b = 0 THEN FALSE
  ELSE IF a = b THEN TRUE
  ELSE PageAncestor(a, PageParent(b))

\* a.contains(b) of the DOM: b is a or a descendant of a.
Contains(a, b) ==
  IF a = NullT \/ b = NullT THEN FALSE
  ELSE IF a.k = "page" THEN b.k = "page" /\ PageAncestor(a.g, b.g)
  ELSE a = b \/ (a.k \in {"dialog", "devsel"} /\ Holder(b) = a)

\* The id attribute of a node ("" when it has none).
IdOf(t) ==
  CASE t.k = "page" -> PageId(t.g)
    [] t.k = "overlay" -> "mcp-inspector-overlay"
    [] t.k = "info" -> "mcp-inspector-info"
    [] t.k = "dialog" -> "mcp-inspector-dialog"
    [] t.k = "highlight" -> "mcp-inspector-highlight"
    [] t.k = "toggle" -> "mcp-toggle-button"
    [] t.k = "devsel" -> "mcp-device-selector"
    [] t.k = "dropdown" -> "mcp-device-dropdown"
    [] t.k = "apply" -> "mcp-apply-size"
    [] t.k = "cancel" -> "mcp-cancel-button"
    [] t.k = "submit" -> "mcp-submit-button"
    [] OTHER -> ""

TagOf(t) ==
  CASE t.k = "page" -> PageTag(t.g)
    [] t.k \in {"toggle", "apply", "cancel", "submit"} -> "button"
    [] t.k = "dropdown" -> "select"
    [] OTHER -> "div"

ClassesOf(t) == IF t.k = "page" THEN PageClasses(t.g) ELSE <<>>

(***************************************************************************)
(* Text.  A text is a sequence of characters; " " is white space.          *)
(***************************************************************************)
Texts == {<<>>, <<" ">>, <<" ", "a", " ">>}

RECURSIVE TrimLeft(_)
TrimLeft(s) ==
  IF s = <<>> THEN s
  ELSE IF Head(s) = " " THEN TrimLeft(Tail(s))
  ELSE s

RECURSIVE TrimRight(_)
TrimRight(s) ==
  IF s = <<>> THEN s
  ELSE IF s[Len(s)] = " " THEN TrimRight(SubSeq(s, 1, Len(s) - 1))
  ELSE s

\* String.prototype.trim
Trim(s) == TrimRight(TrimLeft(s))

\* Decimal digits, and Number.prototype.toString of a natural number.
DigitChars == <<"0", "1", "2", "3", "4", "5", "6", "7", "8", "9">>
IsDigit(c) == \E i \in 1..Len(DigitChars) : DigitChars[i] = c
DigitValue(c) == (CHOOSE i \in 1..Len(DigitChars) : DigitChars[i] = c) - 1

RECURSIVE toString(_)
toString(n) ==
  IF n < 10 THEN <<DigitChars[n + 1]>>
  ELSE toString(n \div 10) \o <<DigitChars[(n % 10) + 1]>>

\* The digits a text starts with, and their decimal value.
RECURSIVE TakeDigits(_)
TakeDigits(s) ==
  IF s = <<>> \/ ~IsDigit(Head(s)) THEN <<>>
  ELSE <<Head(s)>> \o TakeDigits(Tail(s))

RECURSIVE DigitsValue(_)
DigitsValue(s) ==
  IF s = <<>> THEN 0
  ELSE 10 * DigitsValue(SubSeq(s, 1, Len(s) - 1)) + DigitValue(s[Len(s)])

\* parseInt of a text: leading white space, a sign, then the digits up to
\* the first other character; NaN when there is no digit.
NaN == [nan |-> TRUE, n |-> 0]
parseInt(text) ==
  LET s == TrimLeft(text)
      signed == s # <<>> /\ Head(s) \in {"-", "+"}
      digits == TakeDigits(IF signed THEN Tail(s) ELSE s)
  IN IF digits = <<>> THEN NaN
     ELSE [nan |-> FALSE,
           n |-> IF signed /\ Head(s) = "-" THEN 0 - DigitsValue(digits)
                 ELSE DigitsValue(digits)]
isNaN(v) == v.nan

\* The value of an input of type 'number' (lines 350, 359) after the text
\* was typed into it: the text when it is a floating-point number
\* (-digits.digits e digits), the empty string otherwise.
IsFloatText(text) ==
  LET a == IF text # <<>> /\ Head(text) = "-" THEN Tail(text) ELSE text
      int == TakeDigits(a)
      b == SubSeq(a, Len(int) + 1, Len(a))
      frac == IF b # <<>> /\ Head(b) = "." THEN TakeDigits(Tail(b)) ELSE <<>>
      c == IF b # <<>> /\ Head(b) = "."
           THEN SubSeq(b, Len(frac) + 2, Len(b)) ELSE b
      exp == IF c # <<>> /\ Head(c) = "e" THEN TakeDigits(Tail(c)) ELSE <<>>
  IN /\ int # <<>> \/ frac # <<>>
     /\ b = <<>> \/ Head(b) # "." \/ frac # <<>>
     /\ \/ c = <<>>
        \/ Head(c) = "e" /\ exp # <<>> /\ Len(c) = Len(exp) + 1
numberInputValue(text) == IF IsFloatText(text) THEN text ELSE <<>>

(***************************************************************************)
(* State.                                                                  *)
(*   browser, page, elementInfo   the driver's module-level variables      *)
(*   eng      the closures of the injections made into the current page,   *)
(*            in injection order: each keeps its own state variables and   *)
(*            its references to the nodes it created                       *)
(*   dom      the engine's nodes attached to body, in document order       *)
(*   draft    value of the dialog's textarea                               *)
(*   slot     window.selectedElement                                       *)
(*   style, markup   inline style and markup of the page elements          *)
(*   win      size last requested with window.resizeTo, and sizeIn, the    *)
(*            value of the width and the height input of the first device  *)
(*            selector in the document, as text                            *)
(*   float    the page as the floating-icon engine of the second           *)
(*            definition sees it                                           *)
(*   async    the driver when its calls overlap: its variables, the        *)
(*            browsers running, and the calls in flight                    *)
(* Observers, read by no operation:                                        *)
(*   last     the last request or gesture and its result                   *)
(*   surfOnly since the engine was last idle, the operator has only        *)
(*            pointed at and clicked on the engine's own surfaces          *)
(*   fresh    the engine was injected and no text was submitted since      *)
(*   sentFor  the element whose dialog the last message was sent from      *)
(***************************************************************************)
VARIABLES browser, page, elementInfo, eng, dom, draft, slot, style, markup,
          win, sizeIn, float, async, last, surfOnly, fresh, sentFor

vars == <<browser, page, elementInfo, eng, dom, draft, slot, style, markup,
          win, sizeIn, float, async, last, surfOnly, fresh, sentFor>>

driverVars == <<browser, page, elementInfo>>
pageVars == <<eng, dom, draft, slot, style, markup, win, sizeIn>>

NoRecord == [set |-> FALSE]
NoInfo == [set |-> FALSE]
NoSize == <<0, 0>>
NoText == <<<<>>, <<>>>>
Body == [k |-> "body", g |-> 0]

\* The in-page part of the state as one value, for the engine's functions.
Page == [eng |-> eng, dom |-> dom, draft |-> draft, slot |-> slot,
         style |-> style, markup |-> markup, win |-> win, sizeIn |-> sizeIn]

SetPage(p) ==
  /\ eng' = p.eng
  /\ dom' = p.dom
  /\ draft' = p.draft
  /\ slot' = p.slot
  /\ style' = p.style
  /\ markup' = p.markup
  /\ win' = p.win
  /\ sizeIn' = p.sizeIn

\* A freshly loaded document: nothing injected, no selection recorded.
FreshPage ==
  [eng |-> <<>>, dom |-> <<>>, draft |-> <<>>, slot |-> NoRecord,
   style |-> [n \in PageIds |-> "s0"], markup |-> [n \in PageIds |-> "m0"],
   win |-> NoSize, sizeIn |-> NoText]

\* The closure state of one injection (lines 385-390) and the style of the
\* nodes it created.
NewEngine ==
  [active |-> FALSE, locked |-> FALSE, cur |-> NullT, sel |-> NullT,
   hb |-> FALSE, hbDisp |-> FALSE, hbEl |-> NullT, hbSel |-> FALSE,
   ovDisp |-> FALSE, infoDisp |-> FALSE,
   info |-> [kind |-> "initial", el |-> NullT, msg |-> <<>>],
   dlgDisp |-> FALSE, tglOn |-> FALSE, dlgBound |-> 0, devBound |-> 0]

(***************************************************************************)
(* Document queries.                                                       *)
(***************************************************************************)
InDom(p, t) == \E i \in 1..Len(p.dom) : p.dom[i] = Holder(t)

\* Index in dom of the first body child of the given kind, 0 when none.
FirstOf(p, kind) ==
  IF \E i \in 1..Len(p.dom) : p.dom[i].k = kind
  THEN CHOOSE i \in 1..Len(p.dom) :
         /\ p.dom[i].k = kind
         /\ \A j \in 1..(i - 1) : p.dom[j].k # kind
  ELSE 0

CountOf(p, kind) == Cardinality({i \in 1..Len(p.dom) : p.dom[i].k = kind})

RemoveAt(s, i) == SubSeq(s, 1, i - 1) \o SubSeq(s, i + 1, Len(s))

\* document.getElementById(id) followed by element.remove(), lines 211-216.
RemoveById(p, kind) ==
  IF FirstOf(p, kind) = 0 THEN p
  ELSE [p EXCEPT !.dom = RemoveAt(p.dom, FirstOf(p, kind))]

\* Generation of the dialog whose textarea getElementById finds, 0 when none.
TextareaGen(p) ==
  IF FirstOf(p, "dialog") = 0 THEN 0 ELSE p.dom[FirstOf(p, "dialog")].g

ParentElement(p, t) ==
  IF t.k = "page"
  THEN IF PageParent(t.g) = 0 THEN Body ELSE PageT(PageParent(t.g))
  ELSE IF t.k \in BodyKinds
  THEN IF InDom(p, t) THEN Body ELSE NullT
  ELSE Holder(t)

RECURSIVE PageChildren(_, _)
PageChildren(par, n) ==
  IF n \notin PageIds THEN <<>>
  ELSE (IF PageParent(n) = par THEN <<PageT(n)>> ELSE <<>>)
       \o PageChildren(par, n + 1)

\* parent.children, in document order.
ChildrenOf(p, par) ==
  CASE par = Body -> PageChildren(0, 1) \o p.dom
    [] par.k = "page" -> PageChildren(par.g, 1)
    [] par.k = "dialog" ->
         <<N("cancel", par.g), N("submit", par.g)>>
    [] par.k = "devsel" -> <<N("dropdown", par.g), N("apply", par.g)>>
    [] OTHER -> <<>>

RECURSIVE FilterTag(_, _)
FilterTag(s, tag) ==
  IF s = <<>> THEN <<>>
  ELSE (IF TagOf(Head(s)) = tag THEN <<Head(s)>> ELSE <<>>)
       \o FilterTag(Tail(s), tag)

IndexOf(s, x) == CHOOSE i \in 1..Len(s) : s[i] = x

Selector(kind, tag, id, classes, nth) ==
  [kind |-> kind, tag |-> tag, id |-> id, classes |-> classes, nth |-> nth]

\* getSelector, lines 439-460.
getSelector(p, element) ==
  IF IdOf(element) # ""
  THEN Selector("id", "", IdOf(element), <<>>, 0)
  ELSE IF Len(ClassesOf(element)) > 0
  THEN Selector("class", TagOf(element), "", ClassesOf(element), 0)
  ELSE LET parent == ParentElement(p, element)
           siblings == FilterTag(ChildrenOf(p, parent), TagOf(element))
       IN IF parent # NullT /\ Len(siblings) > 1
          THEN Selector("tag", TagOf(element), "", <<>>,
                        IndexOf(siblings, element))
          ELSE Selector("tag", TagOf(element), "", <<>>, 0)

\* element.outerHTML and window.getComputedStyle(element) at the time of
\* the call.  The engine's own nodes are not restyled by the operator here.
OuterHTML(p, t) == IF t.k = "page" THEN p.markup[t.g] ELSE "m0"
ComputedStyle(p, t) == IF t.k = "page" THEN p.style[t.g] ELSE "s0"

(***************************************************************************)
(* The toggle-button engine: the functions of one injection's closure.     *)
(* p is the page, i the number of the injection whose closure runs.        *)
(***************************************************************************)

\* createHighlightBox and updateHighlightBox, lines 393-429.
updateHighlightBox(p, i, element, isSelected) ==
  LET q == IF p.eng[i].hb THEN p
           ELSE [p EXCEPT !.dom = Append(@, N("highlight", i)),
                          !.eng[i].hb = TRUE]
  IN [q EXCEPT !.eng[i].hbEl = element,
               !.eng[i].hbDisp = TRUE,
               !.eng[i].hbSel = isSelected]

\* hideHighlightBox, lines 432-436.
hideHighlightBox(p, i) ==
  IF p.eng[i].hb THEN [p EXCEPT !.eng[i].hbDisp = FALSE] ELSE p

\* updateInfoPanel, lines 463-485.
updateInfoPanel(p, i, element, isSelected) ==
  [p EXCEPT !.eng[i].info =
              [kind |-> IF isSelected THEN "locked" ELSE "hover",
               el |-> element, msg |-> <<>>],
            !.eng[i].infoDisp = TRUE]

\* positionDialog, lines 488-504.
positionDialog(p, i, element) == [p EXCEPT !.eng[i].dlgDisp = TRUE]

\* hideDialog, lines 507-513: hides this closure's dialog and empties the
\* textarea that getElementById finds in the document.
hideDialog(p, i) ==
  [p EXCEPT !.eng[i].dlgDisp = FALSE,
            !.draft = IF TextareaGen(p) # 0 THEN <<>> ELSE @]

\* The record stored by submitModificationRequest, lines 522-528.  element
\* and css are live objects: the node itself and its CSSStyleDeclaration.
Record(p, element, request) ==
  [set |-> TRUE, element |-> element, selector |-> getSelector(p, element),
   html |-> OuterHTML(p, element), css |-> element, msg |-> request]

\* submitModificationRequest, lines 516-540.
submitModificationRequest(p, i) ==
  IF TextareaGen(p) # 0 /\ p.eng[i].sel # NullT
  THEN LET request == Trim(p.draft)
       IN IF request # <<>>
          THEN hideDialog(
                 [p EXCEPT !.slot = Record(p, p.eng[i].sel, request),
                           !.eng[i].info = [kind |-> "submitted", el |-> NullT,
                                            msg |-> request]], i)
          ELSE p
  ELSE p

\* toggleSelectionMode without the reset of its else branch.
toggleSelectionModeNoReset(p, i) ==
  IF ~p.eng[i].active
  THEN hideDialog([p EXCEPT !.eng[i].active = TRUE,
                            !.eng[i].tglOn = TRUE,
                            !.eng[i].ovDisp = TRUE,
                            !.eng[i].infoDisp = TRUE,
                            !.eng[i].locked = FALSE,
                            !.eng[i].sel = NullT], i)
  ELSE hideDialog(hideHighlightBox(
         [p EXCEPT !.eng[i].active = FALSE,
                   !.eng[i].tglOn = FALSE,
                   !.eng[i].ovDisp = FALSE,
                   !.eng[i].infoDisp = FALSE], i), i)

\* toggleSelectionMode, lines 543-574.
toggleSelectionMode(p, i) ==
  IF ~p.eng[i].active
  THEN hideDialog([p EXCEPT !.eng[i].active = TRUE,
                            !.eng[i].tglOn = TRUE,
                            !.eng[i].ovDisp = TRUE,
                            !.eng[i].infoDisp = TRUE,
                            !.eng[i].locked = FALSE,
                            !.eng[i].sel = NullT], i)
  ELSE LET q == hideDialog(hideHighlightBox(
                  [p EXCEPT !.eng[i].active = FALSE,
                            !.eng[i].tglOn = FALSE,
                            !.eng[i].ovDisp = FALSE,
                            !.eng[i].infoDisp = FALSE], i), i)
       IN [q EXCEPT !.eng[i].locked = FALSE,
                    !.eng[i].sel = NullT,
                    !.eng[i].cur = NullT]

\* The mouseover listener without the test of isSelectionModeActive.
onMouseOverNoModeGuard(p, i, target) ==
  LET e == p.eng[i]
  IN IF e.locked THEN p
     ELSE updateInfoPanel(
            updateHighlightBox([p EXCEPT !.eng[i].cur = target],
                               i, target, FALSE),
            i, target, FALSE)

\* The mouseover listener without the test of isSelectionLocked.
onMouseOverNoLockGuard(p, i, target) ==
  LET e == p.eng[i]
  IN IF ~e.active THEN p
     ELSE IF /\ target # N("overlay", i)
             /\ ~Contains(N("info", i), target)
             /\ ~Contains(N("dialog", i), target)
             /\ target # N("toggle", i)
             /\ IdOf(target) # "mcp-inspector-highlight"
     THEN updateInfoPanel(
            updateHighlightBox([p EXCEPT !.eng[i].cur = target],
                               i, target, FALSE),
            i, target, FALSE)
     ELSE p

\* The document mouseover listener, lines 577-588.
onMouseOver(p, i, target) ==
  LET e == p.eng[i]
  IN IF ~e.active \/ e.locked THEN p
     ELSE IF /\ target # N("overlay", i)
             /\ ~Contains(N("info", i), target)
             /\ ~Contains(N("dialog", i), target)
             /\ target # N("toggle", i)
             /\ IdOf(target) # "mcp-inspector-highlight"
     THEN updateInfoPanel(
            updateHighlightBox([p EXCEPT !.eng[i].cur = target],
                               i, target, FALSE),
            i, target, FALSE)
     ELSE p

\* The click listener whose unlock branch leaves the dialog as it is.
onClickKeepsDialog(p, i, target) ==
  LET e == p.eng[i]
  IN IF Contains(N("toggle", i), target) THEN toggleSelectionMode(p, i)
     ELSE IF ~e.active THEN p
     ELSE IF IdOf(target) = "mcp-cancel-button" THEN hideDialog(p, i)
     ELSE IF IdOf(target) = "mcp-submit-button"
     THEN submitModificationRequest(p, i)
     ELSE IF Contains(N("dialog", i), target) THEN p
     ELSE IF Contains(N("info", i), target) THEN p
     ELSE IF e.locked /\ e.sel # NullT /\ Contains(e.sel, target)
     THEN positionDialog(p, i, e.sel)
     ELSE IF e.locked
     THEN LET q == [p EXCEPT !.eng[i].locked = FALSE, !.eng[i].sel = NullT]
          IN IF target # N("overlay", i)
                /\ IdOf(target) # "mcp-inspector-highlight"
             THEN updateInfoPanel(
                    updateHighlightBox([q EXCEPT !.eng[i].cur = target],
                                       i, target, FALSE),
                    i, target, FALSE)
             ELSE q
     ELSE IF e.cur # NullT
     THEN updateInfoPanel(
            updateHighlightBox([p EXCEPT !.eng[i].locked = TRUE,
                                         !.eng[i].sel = e.cur],
                               i, e.cur, TRUE),
            i, e.cur, TRUE)
     ELSE p

\* The document click listener, lines 591-668.
onClick(p, i, target) ==
  LET e == p.eng[i]
  IN IF Contains(N("toggle", i), target) THEN toggleSelectionMode(p, i)
     ELSE IF ~e.active THEN p
     ELSE IF IdOf(target) = "mcp-cancel-button" THEN hideDialog(p, i)
     ELSE IF IdOf(target) = "mcp-submit-button"
     THEN submitModificationRequest(p, i)
     ELSE IF Contains(N("dialog", i), target) THEN p
     ELSE IF Contains(N("info", i), target) THEN p
     ELSE IF e.locked /\ e.sel # NullT /\ Contains(e.sel, target)
     THEN positionDialog(p, i, e.sel)
     ELSE IF e.locked
     THEN LET q == hideDialog([p EXCEPT !.eng[i].locked = FALSE,
                                        !.eng[i].sel = NullT], i)
          IN IF target # N("overlay", i)
                /\ IdOf(target) # "mcp-inspector-highlight"
             THEN updateInfoPanel(
                    updateHighlightBox([q EXCEPT !.eng[i].cur = target],
                                       i, target, FALSE),
                    i, target, FALSE)
             ELSE q
     ELSE IF e.cur # NullT
     THEN updateInfoPanel(
            updateHighlightBox([p EXCEPT !.eng[i].locked = TRUE,
                                         !.eng[i].sel = e.cur],
                               i, e.cur, TRUE),
            i, e.cur, TRUE)
     ELSE p

\* The catalog of device sizes, lines 305-315.
deviceSizes ==
  <<<<1280, 800>>, <<375, 667>>, <<414, 896>>, <<390, 844>>, <<428, 926>>,
    <<768, 1024>>, <<1024, 1366>>, <<360, 800>>, <<393, 851>>>>

\* resizeWindow, lines 671-687: the inputs that getElementById finds are
\* those of the first device selector in the document.
resizeWindow(p, width, height) ==
  LET q == [p EXCEPT !.win = <<width + 16, height + 88>>]
  IN IF FirstOf(p, "devsel") # 0
     THEN [q EXCEPT !.sizeIn = <<toString(width), toString(height)>>]
     ELSE q

\* The dropdown's change listener, lines 690-698.
onDeviceChange(p, value) ==
  LET selectedIndex == parseInt(value)
  IN IF /\ ~isNaN(selectedIndex)
        /\ selectedIndex.n >= 0
        /\ selectedIndex.n < Len(deviceSizes)
     THEN resizeWindow(p, deviceSizes[selectedIndex.n + 1][1],
                       deviceSizes[selectedIndex.n + 1][2])
     ELSE p

\* The apply button's click listener, lines 700-713, on the input content.
onApplySizeNoRangeTest(p) ==
  LET width == parseInt(p.sizeIn[1])
      height == parseInt(p.sizeIn[2])
  IN IF ~isNaN(width) /\ ~isNaN(height)
     THEN resizeWindow(p, width.n, height.n)
     ELSE p

onApplySize(p) ==
  LET width == parseInt(p.sizeIn[1])
      height == parseInt(p.sizeIn[2])
  IN IF ~isNaN(width) /\ ~isNaN(height) /\ width.n > 0 /\ height.n > 0
     THEN resizeWindow(p, width.n, height.n)
     ELSE p

(***************************************************************************)
(* Injection and event dispatch.                                           *)
(***************************************************************************)
RECURSIVE RemoveAll(_, _)
RemoveAll(p, kinds) ==
  IF kinds = <<>> THEN p
  ELSE RemoveAll(RemoveById(p, Head(kinds)), Tail(kinds))

\* The identifiers removed before anything is created, lines 203-209.
existingElements == <<"overlay", "info", "dialog", "highlight", "toggle">>

\* A node that is not in the document is neither shown nor a target of
\* events, and nothing reads its style: the model keeps no style for it.
Detach(p) ==
  [p EXCEPT !.eng =
     [i \in 1..Len(p.eng) |->
        LET e == p.eng[i]
            a == IF InDom(p, N("toggle", i)) THEN e
                 ELSE [e EXCEPT !.tglOn = FALSE]
            b == IF InDom(p, N("overlay", i)) THEN a
                 ELSE [a EXCEPT !.ovDisp = FALSE]
            c == IF InDom(p, N("info", i)) THEN b
                 ELSE [b EXCEPT !.infoDisp = FALSE,
                                !.info = NewEngine.info]
            d == IF InDom(p, N("dialog", i)) THEN c
                 ELSE [c EXCEPT !.dlgDisp = FALSE]
        IN IF InDom(p, N("highlight", i)) THEN d
           ELSE [d EXCEPT !.hbDisp = FALSE, !.hbEl = NullT,
                          !.hbSel = FALSE]]]

\* The script inspectElement evaluates in the page, lines 201-727: removal
\* by id, creation of the five surfaces, a new closure, and its listeners
\* on document and on the buttons getElementById finds.
injectEngine(p) ==
  LET g == Len(p.eng) + 1
      q == RemoveAll(p, existingElements)
      r == [q EXCEPT !.dom = @ \o <<N("overlay", g), N("info", g),
                                    N("dialog", g), N("toggle", g),
                                    N("devsel", g)>>]
      t == [r EXCEPT !.draft = IF TextareaGen(r) = g THEN <<>> ELSE @,
                     !.eng = Append(@,
                        [NewEngine EXCEPT
                           !.dlgBound = TextareaGen(r),
                           !.devBound = r.dom[FirstOf(r, "devsel")].g])]
  IN Detach(t)

\* The document listeners of every closure, in the order they were added.
RECURSIVE ClickAll(_, _, _)
ClickAll(p, i, target) ==
  IF i > Len(p.eng) THEN p
  ELSE ClickAll(onClick(p, i, target), i + 1, target)

RECURSIVE OverAll(_, _, _)
OverAll(p, i, target) ==
  IF i > Len(p.eng) THEN p
  ELSE OverAll(onMouseOver(p, i, target), i + 1, target)

\* The listeners added to the dialog buttons, lines 716-726, and to the
\* apply button, lines 700-713.
RECURSIVE ButtonAll(_, _, _)
ButtonAll(p, i, target) ==
  IF i > Len(p.eng) THEN p
  ELSE LET e == p.eng[i]
           q == CASE target.k = "cancel" /\ e.dlgBound = target.g ->
                       hideDialog(p, i)
                  [] target.k = "submit" /\ e.dlgBound = target.g ->
                       submitModificationRequest(p, i)
                  [] target.k = "apply" /\ e.devBound = target.g ->
                       onApplySize(p)
                  [] OTHER -> p
       IN ButtonAll(q, i + 1, target)

HasButtonListener(p, target) ==
  \E i \in 1..Len(p.eng) :
    \/ target.k \in {"cancel", "submit"} /\ p.eng[i].dlgBound = target.g
    \/ target.k = "apply" /\ p.eng[i].devBound = target.g

\* A click: the target's own listeners run first and stop propagation;
\* otherwise the event bubbles to the document listeners.
dispatchClick(p, target) ==
  IF HasButtonListener(p, target)
  THEN Detach(ButtonAll(p, 1, target))
  ELSE Detach(ClickAll(p, 1, target))

dispatchMouseOver(p, target) == Detach(OverAll(p, 1, target))

dispatchChange(p, target, index) ==
  IF \E i \in 1..Len(p.eng) : p.eng[i].devBound = target.g
  THEN onDeviceChange(p, toString(index))
  ELSE p

\* The nodes the pointer can reach: page elements and the engine's shown
\* nodes that take pointer events (overlay and highlight box take none).
Shown(p, t) ==
  /\ t.g <= Len(p.eng)
  /\ InDom(p, t)
  /\ CASE t.k = "info" -> p.eng[t.g].infoDisp
       [] t.k \in DialogParts -> p.eng[t.g].dlgDisp
       [] OTHER -> TRUE

Reachable(p, t) == t.k = "page" \/ Shown(p, t)

(***************************************************************************)
(* The floating-icon engine (second definition, lines 1374-1757).          *)
(* f is the page:                                                          *)
(*   eng        the closures of the injections, [tb, rp, active] for       *)
(*              isToolbarVisible, isResolutionPickerVisible and            *)
(*              isSelectionModeActive; nothing is removed on injection,    *)
(*              so the document holds the icon, toolbar and picker of      *)
(*              every closure                                              *)
(*   listeners  the closures whose capturing click listener is on          *)
(*              document, in the order the listeners were added            *)
(*   hl         the element under the highlight node, NullT when none      *)
(*   dialogs    the dialog boxes in the document, oldest first: selected   *)
(*              element, its background before selection, textarea value   *)
(*   slot, message   window.selectedElement, window.selectedElementMessage *)
(*   bg         inline background colour of the page elements              *)
(*   notes, timers   notification nodes, and the pending 2000 ms timers    *)
(***************************************************************************)
FreshFloat ==
  [eng |-> <<>>, listeners |-> <<>>, hl |-> NullT, dialogs |-> <<>>,
   slot |-> NoRecord, message |-> <<>>, bg |-> [n \in PageIds |-> "s0"],
   notes |-> 0, timers |-> <<>>]

\* The closure variables declared at lines 1476-1478.
NewFloat == [tb |-> FALSE, rp |-> FALSE, active |-> FALSE]

FloatKinds ==
  {"floatingIcon", "toolbar", "selectElementButton",
   "changeResolutionButton", "resolutionPicker", "closeButton"}

FloatIdOf(t) ==
  CASE t.k = "page" -> PageId(t.g)
    [] t.k = "floatingIcon" -> "mcp-floating-icon"
    [] t.k = "toolbar" -> "mcp-toolbar"
    [] t.k = "selectElementButton" -> "mcp-select-element-btn"
    [] t.k = "changeResolutionButton" -> "mcp-change-resolution-btn"
    [] t.k = "resolutionPicker" -> "mcp-resolution-picker"
    [] t.k = "closeButton" -> "mcp-close-resolution"
    [] t.k = "dialogBox" -> "mcp-dialog-box"
    [] t.k = "messageInput" -> "mcp-message-input"
    [] t.k = "cancelBtn" -> "mcp-cancel-btn"
    [] t.k = "sendBtn" -> "mcp-send-btn"
    [] OTHER -> ""

\* Number of div nodes the engine has appended to body.
FloatDivs(f) ==
  3 * Len(f.eng) + (IF f.hl = NullT THEN 0 ELSE 1) + Len(f.dialogs) + f.notes

\* getUniqueSelector, lines 1689-1718.  Only page elements lack an id;
\* the engine's nodes follow the page elements in body.
RECURSIVE getUniqueSelector(_, _)
getUniqueSelector(f, element) ==
  IF FloatIdOf(element) # "" THEN "#" \o FloatIdOf(element)
  ELSE IF element = Body THEN "body"
  ELSE LET parent == IF PageParent(element.g) = 0 THEN Body
                     ELSE PageT(PageParent(element.g))
           same == FilterTag(PageChildren(PageParent(element.g), 1),
                             PageTag(element.g))
           siblings == Len(same) +
                       (IF parent = Body /\ PageTag(element.g) = "div"
                        THEN FloatDivs(f) ELSE 0)
       IN IF siblings = 1
          THEN getUniqueSelector(f, parent) \o " > " \o PageTag(element.g)
          ELSE getUniqueSelector(f, parent) \o " > " \o PageTag(element.g)
               \o ":nth-child(" \o ToString(IndexOf(same, element)) \o ")"

\* floatingIcon.contains(target) || toolbar.contains(target) ||
\* resolutionPicker.contains(target), for the nodes of closure i.
OwnSurface(i, target) == target.k \in FloatKinds /\ target.g = i

AnyActive(f) == \E i \in 1..Len(f.eng) : f.eng[i].active

\* highlightElement, lines 1517-1541.
highlightElement(f, element) == [f EXCEPT !.hl = element]

\* The mouseover listeners added at line 1544, one per activation.
floatMouseOver(f, target) ==
  IF AnyActive(f) THEN highlightElement(f, target) ELSE f

\* What the selection stores of the element: its markup, which carries the
\* inline style, and a copy of its computed style.
FloatHtml(f, target) ==
  IF target.k = "page" THEN <<"m0", f.bg[target.g]>> ELSE <<"m0", "s0">>
FloatCss(f, target) == IF target.k = "page" THEN f.bg[target.g] ELSE "s0"

\* The capturing click listener of closure i, lines 1551-1686, up to the
\* creation of the dialog box.
onCaptureClick(f, i, target) ==
  IF ~f.eng[i].active \/ OwnSurface(i, target) THEN f
  ELSE [f EXCEPT
          !.slot = [set |-> TRUE,
                    selector |-> getUniqueSelector(f, target),
                    html |-> FloatHtml(f, target),
                    css |-> FloatCss(f, target)],
          !.eng[i].active = FALSE,
          !.hl = NullT,
          !.bg = IF target.k = "page"
                 THEN [@ EXCEPT ![target.g] = "green"] ELSE @,
          !.dialogs = Append(@, [target |-> target,
                                 orig |-> FloatCss(f, target),
                                 draft |-> <<>>])]

RECURSIVE CaptureAll(_, _, _)
CaptureAll(f, order, target) ==
  IF order = <<>> THEN f
  ELSE CaptureAll(onCaptureClick(f, Head(order), target), Tail(order), target)

Restore(f, d) ==
  IF d.target.k = "page" THEN [f EXCEPT !.bg[d.target.g] = d.orig] ELSE f

\* The listener on the cancel button, lines 1639-1645.
onCancelBtn(f) ==
  LET d == f.dialogs[1]
  IN Restore([f EXCEPT !.dialogs = Tail(@)], d)

\* The listener on the send button, lines 1647-1684.
onSendBtn(f) ==
  LET d == f.dialogs[1]
      message == Trim(d.draft)
      g == IF message # <<>>
           THEN [f EXCEPT !.message = message,
                          !.notes = @ + 1,
                          !.timers = Append(@, [k |-> "note",
                                                target |-> NullT,
                                                orig |-> ""])]
           ELSE f
  IN [g EXCEPT !.dialogs = Tail(@),
               !.timers = Append(@, [k |-> "restore", target |-> d.target,
                                     orig |-> d.orig])]

\* The listener on selectElementButton, lines 1499-1735.
onSelectElementButton(f, i) ==
  IF ~f.eng[i].active
  THEN [f EXCEPT !.eng[i].active = TRUE,
                 !.eng[i].tb = FALSE,
                 !.listeners = IF \E j \in 1..Len(@) : @[j] = i THEN @
                                ELSE Append(@, i)]
  ELSE [f EXCEPT !.eng[i].active = FALSE, !.hl = NullT]

\* The listeners on the target itself, lines 1481-1499.  The button
\* listeners of every dialog are bound to the buttons getElementById finds,
\* those of the oldest dialog, which a later dialog covers.
onTarget(f, target) ==
  CASE target.k = "floatingIcon" ->
         [f EXCEPT !.eng[target.g].tb = ~@]
    [] target.k = "changeResolutionButton" ->
         [f EXCEPT !.eng[target.g].rp = ~@]
    [] target.k = "closeButton" ->
         [f EXCEPT !.eng[target.g].rp = FALSE]
    [] target.k = "selectElementButton" ->
         onSelectElementButton(f, target.g)
    [] target.k = "cancelBtn" /\ Len(f.dialogs) = 1 -> onCancelBtn(f)
    [] target.k = "sendBtn" /\ Len(f.dialogs) = 1 -> onSendBtn(f)
    [] OTHER -> f

\* The bubbling click listener of closure i, lines 1738-1756.
onOutsideClick(f, i, target) ==
  IF OwnSurface(i, target) \/ f.eng[i].active THEN f
  ELSE [f EXCEPT !.eng[i].tb = FALSE, !.eng[i].rp = FALSE]

RECURSIVE OutsideAll(_, _, _)
OutsideAll(f, i, target) ==
  IF i > Len(f.eng) THEN f
  ELSE OutsideAll(onOutsideClick(f, i, target), i + 1, target)

\* A click: the capturing listeners on document run first and, when their
\* closure is in selection mode, stop the event there.
floatClick(f, target) ==
  IF AnyActive(f)
  THEN CaptureAll(f, f.listeners, target)
  ELSE OutsideAll(onTarget(f, target), 1, target)

\* The script of the second inspectElement, lines 1374-1757.
floatInject(f) == [f EXCEPT !.eng = Append(@, NewFloat)]

\* The nodes the pointer can reach.  Icons, toolbars, pickers and dialogs
\* are fixed at the same place, so the newest shown one covers the others.
FloatReachable(f, t) ==
  CASE t.k = "page" -> TRUE
    [] t.k = "floatingIcon" -> t.g = Len(f.eng)
    [] t.k \in {"selectElementButton", "changeResolutionButton"} ->
         /\ t.g \in 1..Len(f.eng)
         /\ f.eng[t.g].tb
         /\ \A h \in (t.g + 1)..Len(f.eng) : ~f.eng[h].tb
    [] t.k = "closeButton" ->
         /\ t.g \in 1..Len(f.eng)
         /\ f.eng[t.g].rp
         /\ \A h \in (t.g + 1)..Len(f.eng) : ~f.eng[h].rp
    [] t.k \in {"cancelBtn", "sendBtn"} -> Len(f.dialogs) > 0
    [] OTHER -> FALSE

(***************************************************************************)
(* The driver: the requests of the CallToolRequestSchema handler.          *)
(***************************************************************************)
\* The css and html arguments of modify_element: "none" when the property
\* is left out; "{}" an object without entries, "c1" one with entries; ""
\* the empty string, "h1" markup that keeps tag, id and classes.
CssArgs == {"none", "{}", "c1"}
HtmlArgs == {"none", "", "h1"}

Op(op, res, out) == [op |-> op, res |-> res, out |-> out]

\* The gesture a click on the target amounts to.
Gesture(target) ==
  IF target.k \in {"toggle", "cancel", "submit", "apply"} THEN target.k
  ELSE "click"

\* All attached nodes in document order.
RECURSIVE Flatten(_)
Flatten(nodes) ==
  IF nodes = <<>> THEN <<>>
  ELSE LET h == Head(nodes)
           inside == CASE h.k = "dialog" ->
                            <<N("cancel", h.g), N("submit", h.g)>>
                       [] h.k = "devsel" ->
                            <<N("dropdown", h.g), N("apply", h.g)>>
                       [] OTHER -> <<>>
       IN <<h>> \o inside \o Flatten(Tail(nodes))

RECURSIVE PageOrder(_)
PageOrder(n) ==
  IF n \notin PageIds THEN <<>> ELSE <<PageT(n)>> \o PageOrder(n + 1)

DocOrder(p) == PageOrder(1) \o Flatten(p.dom)

HasClasses(t, classes) ==
  \A i \in 1..Len(classes) :
    \E j \in 1..Len(ClassesOf(t)) : ClassesOf(t)[j] = classes[i]

\* element.matches(selector) for the selectors getSelector produces;
\* :nth-child counts every child of the parent.
Matches(p, t, sel) ==
  CASE sel.kind = "id" -> IdOf(t) = sel.id
    [] sel.kind = "class" -> TagOf(t) = sel.tag /\ HasClasses(t, sel.classes)
    [] OTHER ->
         /\ TagOf(t) = sel.tag
         /\ sel.nth # 0 =>
              LET c == ChildrenOf(p, ParentElement(p, t))
              IN Len(c) >= sel.nth /\ c[sel.nth] = t

\* document.querySelector(selector): the first match, NullT when none.
querySelector(p, sel) ==
  LET d == DocOrder(p)
      hits == {i \in 1..Len(d) : Matches(p, d[i], sel)}
  IN IF hits = {} THEN NullT
     ELSE d[CHOOSE i \in hits : \A j \in hits : i <= j]

\* What a read of the slot yields: the stored strings, and the current
\* values of the live style object.
ReadSlot(p) ==
  IF p.slot.set
  THEN [set |-> TRUE, selector |-> p.slot.selector, html |-> p.slot.html,
        css |-> ComputedStyle(p, p.slot.css), msg |-> p.slot.msg]
  ELSE NoRecord

\* The driver's module-level variables as one value.
Driver == [browser |-> browser, page |-> page, elementInfo |-> elementInfo]

SetDriver(d) ==
  /\ browser' = d.browser
  /\ page' = d.page
  /\ elementInfo' = d.elementInfo

\* closeBrowser when it forgets elementInfo.
closeBrowserKeepsInfo(d) ==
  IF d.browser
  THEN [d EXCEPT !.browser = FALSE, !.page = FALSE]
  ELSE d

\* closeBrowser, lines 945-952.
closeBrowser(d) ==
  IF d.browser
  THEN [d EXCEPT !.browser = FALSE, !.page = FALSE, !.elementInfo = NoInfo]
  ELSE d

\* The engine's newest closure, the one whose surfaces are in the document.
HasEngine(e) == Len(e) > 0
Newest(e) == e[Len(e)]
IdleEngine(e) ==
  HasEngine(e) =>
    /\ ~Newest(e).active
    /\ ~Newest(e).locked
    /\ Newest(e).cur = NullT
    /\ Newest(e).sel = NullT

\* The observers after a step; onSurface: the step points at or clicks on
\* one of the engine's surfaces.
Observe(op, res, out, onSurface) ==
  /\ last' = Op(op, res, out)
  /\ surfOnly' = IF IdleEngine(eng') THEN TRUE ELSE surfOnly /\ onSurface
  /\ fresh' = IF op = "inspect_element" /\ res = "enabled" THEN TRUE
              ELSE IF op \in {"launch_browser", "close_browser"} THEN FALSE
              ELSE IF op = "submit" /\ Trim(draft) # <<>> THEN FALSE
              ELSE fresh
  /\ sentFor' = IF op \in {"launch_browser", "close_browser"} THEN NullT
                ELSE sentFor

\* What launch_browser is called with: no arguments object at all, an object
\* without url, an object with a url (lines 111 and 135).
LaunchArgs == {"undefined", "empty", "url"}

\* The step of launchBrowser that throws, lines 147-157: puppeteer.launch,
\* browser.newPage, page.goto, page.screenshot; "none" when all succeed.
LaunchSteps == {"none", "launch", "newPage", "goto", "screenshot"}

\* The driver's variables when the try block of launchBrowser is left,
\* lines 147-157: each assignment made before the failing step stays.
afterLaunch(d, fail) ==
  [d EXCEPT !.browser = fail # "launch",
            !.page = fail \notin {"launch", "newPage"}]

\* launchBrowser with the test of line 135 made before the session is
\* closed.
launchBrowserTestsFirst(args, fail) ==
  /\ float' = (IF args = "url" THEN FreshFloat ELSE float)
  /\ UNCHANGED async
  /\ IF args = "undefined"
     THEN /\ UNCHANGED <<driverVars, pageVars>>
          /\ Observe("launch_browser", "Error launching browser",
                     NoRecord, FALSE)
     ELSE IF args = "empty"
     THEN /\ UNCHANGED <<driverVars, pageVars>>
          /\ Observe("launch_browser", "URL is required", NoRecord, FALSE)
     ELSE /\ SetDriver(afterLaunch(closeBrowser(Driver), fail))
          /\ SetPage(FreshPage)
          /\ Observe("launch_browser",
                     IF fail = "none" THEN "launched"
                     ELSE "Error launching browser", NoRecord, FALSE)

\* launchBrowser with the test of line 135 left out.
launchBrowserNoUrlTest(args, fail) ==
  /\ float' = (IF browser \/ args = "url" THEN FreshFloat ELSE float)
  /\ UNCHANGED async
  /\ LET d == closeBrowser(Driver)
     IN IF args = "undefined"
        THEN /\ SetDriver(d)
             /\ SetPage(IF browser THEN FreshPage ELSE Page)
             /\ Observe("launch_browser", "Error launching browser",
                        NoRecord, FALSE)
        ELSE /\ SetDriver(afterLaunch(d, fail))
             /\ SetPage(FreshPage)
             /\ Observe("launch_browser",
                        IF fail = "none" THEN "launched"
                        ELSE "Error launching browser", NoRecord, FALSE)

\* launchBrowser, lines 129-184.  Closing the browser ends the document.
\* Reading args.url of no object throws inside the try block, and so does a
\* failing step; line 170 catches both.  A page.goto that fails (a timeout,
\* a name that does not resolve) leaves the page open.
launchBrowser(args, fail) ==
  /\ float' = (IF browser \/ args = "url" THEN FreshFloat ELSE float)
  /\ UNCHANGED async
  /\ LET d == closeBrowser(Driver)
     IN IF args = "undefined"
        THEN /\ SetDriver(d)
             /\ SetPage(IF browser THEN FreshPage ELSE Page)
             /\ Observe("launch_browser", "Error launching browser",
                        NoRecord, FALSE)
        ELSE IF args = "empty"
        THEN /\ SetDriver(d)
             /\ SetPage(IF browser THEN FreshPage ELSE Page)
             /\ Observe("launch_browser", "URL is required", NoRecord, FALSE)
        ELSE /\ SetDriver(afterLaunch(d, fail))
             /\ SetPage(FreshPage)
             /\ Observe("launch_browser",
                        IF fail = "none" THEN "launched"
                        ELSE "Error launching browser", NoRecord, FALSE)

\* inspectElement, lines 186-757.
inspectElement ==
  /\ UNCHANGED <<float, async>>
  /\ IF ~browser \/ ~page
     THEN /\ UNCHANGED <<driverVars, pageVars>>
          /\ Observe("inspect_element", "Browser is not launched", NoRecord,
                     FALSE)
     ELSE /\ Len(eng) < MaxInject
          /\ SetPage(injectEngine(Page))
          /\ UNCHANGED driverVars
          /\ Observe("inspect_element", "enabled", NoRecord, FALSE)

\* getElementInfo, lines 759-838.
getElementInfo ==
  /\ UNCHANGED <<float, async>>
  /\ IF ~browser \/ ~page
     THEN /\ UNCHANGED <<driverVars, pageVars>>
          /\ Observe("get_element_info", "Browser is not launched", NoRecord,
                     FALSE)
     ELSE LET selectedElement == ReadSlot(Page)
          IN IF ~selectedElement.set
             THEN /\ UNCHANGED <<driverVars, pageVars>>
                  /\ Observe("get_element_info", "No element selected",
                             NoRecord, FALSE)
             ELSE /\ elementInfo' = [set |-> TRUE,
                                     selector |-> selectedElement.selector,
                                     html |-> selectedElement.html,
                                     css |-> selectedElement.css]
                  /\ UNCHANGED <<browser, page, pageVars>>
                  /\ Observe("get_element_info", "selected",
                             [selectedElement EXCEPT !.msg = <<>>], FALSE)

\* The two page.evaluate calls of modifyElement, lines 870-888.  "if (css)"
\* lets an object without entries through, whose loop then sets nothing;
\* "if (html)" takes the empty string for no html.
applyCss(p, selector, css) ==
  LET element == querySelector(p, selector)
  IN IF css \notin {"none", "{}"} /\ element # NullT /\ element.k = "page"
     THEN [p EXCEPT !.style[element.g] = css]
     ELSE p

applyHtml(p, selector, html) ==
  LET element == querySelector(p, selector)
  IN IF html \notin {"none", ""} /\ element # NullT /\ element.k = "page"
     THEN [p EXCEPT !.markup[element.g] = html]
     ELSE p

\* modifyElement when the test of browser and page at line 842 is missing.
modifyElementNoSessionGuard(css, html) ==
  /\ UNCHANGED <<float, async>>
  /\ IF ~elementInfo.set
     THEN /\ UNCHANGED <<driverVars, pageVars>>
          /\ Observe("modify_element", "No element selected", NoRecord,
                     FALSE)
     ELSE /\ SetPage(applyHtml(applyCss(Page, elementInfo.selector, css),
                               elementInfo.selector, html))
          /\ UNCHANGED driverVars
          /\ Observe("modify_element", "modified", NoRecord, FALSE)

\* modifyElement that takes the selector from the record in the page.
modifyElementReadsSlot(css, html) ==
  /\ UNCHANGED <<float, async>>
  /\ IF ~browser \/ ~page
     THEN /\ UNCHANGED <<driverVars, pageVars>>
          /\ Observe("modify_element", "Browser is not launched", NoRecord,
                     FALSE)
     ELSE IF ~ReadSlot(Page).set
     THEN /\ UNCHANGED <<driverVars, pageVars>>
          /\ Observe("modify_element", "No element selected", NoRecord, FALSE)
     ELSE /\ SetPage(applyHtml(applyCss(Page, ReadSlot(Page).selector, css),
                               ReadSlot(Page).selector, html))
          /\ UNCHANGED driverVars
          /\ Observe("modify_element", "modified", NoRecord, FALSE)

\* modifyElement, lines 840-918.
modifyElement(css, html) ==
  /\ UNCHANGED <<float, async>>
  /\ IF ~browser \/ ~page
     THEN /\ UNCHANGED <<driverVars, pageVars>>
          /\ Observe("modify_element", "Browser is not launched", NoRecord,
                     FALSE)
     ELSE IF ~elementInfo.set
     THEN /\ UNCHANGED <<driverVars, pageVars>>
          /\ Observe("modify_element", "No element selected", NoRecord, FALSE)
     ELSE /\ SetPage(applyHtml(applyCss(Page, elementInfo.selector, css),
                               elementInfo.selector, html))
          /\ UNCHANGED driverVars
          /\ Observe("modify_element", "modified", NoRecord, FALSE)

\* closeBrowserTool when closeBrowser lacks its test of browser: close()
\* is called on null and the error is caught at line 931.
closeBrowserToolUnguarded ==
  /\ float' = (IF browser THEN FreshFloat ELSE float)
  /\ UNCHANGED async
  /\ SetDriver(closeBrowser(Driver))
  /\ SetPage(IF browser THEN FreshPage ELSE Page)
  /\ Observe("close_browser",
             IF browser THEN "closed" ELSE "Error closing browser",
             [set |-> FALSE, session |-> browser], FALSE)

\* closeBrowserTool, lines 920-943.  The observer notes whether a session
\* was open.
closeBrowserTool ==
  /\ float' = (IF browser THEN FreshFloat ELSE float)
  /\ UNCHANGED async
  /\ SetDriver(closeBrowser(Driver))
  /\ SetPage(IF browser THEN FreshPage ELSE Page)
  /\ Observe("close_browser", "closed",
             [set |-> FALSE, session |-> browser], FALSE)

(***************************************************************************)
(* The operator's input in the page.                                       *)
(***************************************************************************)
MouseOver(target) ==
  /\ UNCHANGED <<float, async>>
  /\ browser /\ page
  /\ Reachable(Page, target)
  /\ SetPage(dispatchMouseOver(Page, target))
  /\ UNCHANGED driverVars
  /\ Observe("mouseover", "", NoRecord, target.k # "page")

Click(target) ==
  /\ UNCHANGED <<float, async>>
  /\ browser /\ page
  /\ Reachable(Page, target)
  /\ SetPage(dispatchClick(Page, target))
  /\ UNCHANGED driverVars
  /\ Observe(Gesture(target), "", NoRecord, target.k # "page")

\* Typing into the shown dialog's textarea.
Type(text) ==
  /\ UNCHANGED <<float, async>>
  /\ browser /\ page
  /\ TextareaGen(Page) # 0
  /\ Shown(Page, N("dialog", TextareaGen(Page)))
  /\ draft' = text
  /\ UNCHANGED <<driverVars, eng, dom, slot, style, markup, win, sizeIn>>
  /\ Observe("type", "", NoRecord, TRUE)

\* Typing into the width (1) or height (2) input that getElementById
\* finds, those of the first device selector.  The inputs of a later
\* selector are read and written by no listener.
SizeTexts ==
  {<<"0">>, <<"-", "5">>, <<"1", "2">>, <<"1", "e", "3">>,
   <<"1", "2", "a">>}

TypeSize(field, text) ==
  /\ UNCHANGED <<float, async>>
  /\ browser /\ page
  /\ FirstOf(Page, "devsel") # 0
  /\ sizeIn' = [sizeIn EXCEPT ![field] = numberInputValue(text)]
  /\ UNCHANGED <<driverVars, eng, dom, draft, slot, style, markup, win>>
  /\ Observe("typeSize", "", NoRecord, TRUE)

\* Choosing an entry of a device dropdown.
ChooseDevice(target, index) ==
  /\ UNCHANGED <<float, async>>
  /\ browser /\ page
  /\ Reachable(Page, target)
  /\ target.k = "dropdown"
  /\ SetPage(dispatchChange(Page, target, index))
  /\ UNCHANGED driverVars
  /\ Observe("change", "", NoRecord, FALSE)

(***************************************************************************)
(* The second definition: its inspectElement and getElementInfo, and the   *)
(* operator's input in a page that holds the floating-icon engine.         *)
(***************************************************************************)
FloatGesture(target) ==
  IF target.k \in {"cancelBtn", "sendBtn"} THEN target.k ELSE "click"

FloatDone(op, res, out) ==
  /\ last' = Op(op, res, out)
  /\ sentFor' = IF float'.message # float.message \/
                   (/\ op = "sendBtn"
                    /\ Len(float.dialogs) = 1
                    /\ Trim(float.dialogs[1].draft) # <<>>)
                THEN float.dialogs[1].target
                ELSE sentFor
  /\ UNCHANGED <<pageVars, async, surfOnly, fresh>>

\* inspectElement, lines 1359-1790.
floatInspectElement ==
  IF ~browser \/ ~page
  THEN /\ UNCHANGED <<driverVars, float>>
       /\ FloatDone("inspect_element", "Browser is not launched", NoRecord)
  ELSE /\ Len(float.eng) < MaxInject
       /\ float' = floatInject(float)
       /\ UNCHANGED driverVars
       /\ FloatDone("inspect_element", "enabled", NoRecord)

\* getElementInfo, lines 1041-1135.
floatGetElementInfo ==
  IF ~browser \/ ~page
  THEN /\ UNCHANGED <<driverVars, float>>
       /\ FloatDone("get_element_info", "Browser is not launched", NoRecord)
  ELSE LET result == [selectedElement |-> float.slot,
                      message |-> float.message]
       IN IF ~result.selectedElement.set
          THEN /\ UNCHANGED <<driverVars, float>>
               /\ FloatDone("get_element_info", "No element selected",
                            NoRecord)
          ELSE /\ elementInfo' = [set |-> TRUE,
                                  selector |-> result.selectedElement.selector,
                                  html |-> result.selectedElement.html,
                                  css |-> result.selectedElement.css]
               /\ UNCHANGED <<browser, page, float>>
               /\ FloatDone("get_element_info", "selected",
                            [set |-> TRUE,
                             selector |-> result.selectedElement.selector,
                             msg |-> result.message])

FloatMouseOver(target) ==
  /\ browser /\ page
  /\ FloatReachable(float, target)
  /\ float' = floatMouseOver(float, target)
  /\ UNCHANGED driverVars
  /\ FloatDone("mouseover", "", NoRecord)

FloatClick(target) ==
  /\ browser /\ page
  /\ FloatReachable(float, target)
  /\ AnyActive(float) => Len(float.dialogs) < MaxDialogs
  /\ target.k = "sendBtn" => Len(float.timers) = 0
  /\ float' = floatClick(float, target)
  /\ UNCHANGED driverVars
  /\ FloatDone(FloatGesture(target), "", NoRecord)

\* Typing into the textarea of the dialog on top.
FloatType(text) ==
  /\ browser /\ page
  /\ Len(float.dialogs) > 0
  /\ float' = [float EXCEPT !.dialogs[Len(float.dialogs)].draft = text]
  /\ UNCHANGED driverVars
  /\ FloatDone("type", "", NoRecord)

\* The oldest pending timer fires, lines 1672-1674 and 1681-1683.
TimerFires ==
  /\ browser /\ page
  /\ Len(float.timers) > 0
  /\ LET t == Head(float.timers)
         f == [float EXCEPT !.timers = Tail(@)]
     IN float' = IF t.k = "note" THEN [f EXCEPT !.notes = @ - 1]
                 ELSE Restore(f, t)
  /\ UNCHANGED driverVars
  /\ FloatDone("timer", "", NoRecord)

(***************************************************************************)
(* The driver when calls overlap.  Each request runs its handler up to the *)
(* next await and resumes when the awaited promise settles; the handlers   *)
(* of different requests interleave at these points.                       *)
(*   async.browser, async.page   the module-level variables: the number of *)
(*                the browser they refer to, 0 for null                    *)
(*   async.live   the browsers running                                     *)
(*   async.calls  per call: the handler, where it waits, the browser it    *)
(*                holds                                                    *)
(***************************************************************************)
NoCall ==
  [op |-> "none", pc |-> "done", b |-> 0, p |-> 0, url |-> FALSE, res |-> ""]

\* failed: the step the latest failed launchBrowser failed at; lost: the
\* browser that call had started, 0 for none.
FreshAsync ==
  [browser |-> 0, page |-> 0, elementInfo |-> NoInfo, live |-> {},
   failed |-> "none", lost |-> 0,
   calls |-> [c \in 1..MaxCalls |-> NoCall]]

AsyncDone(op, res) ==
  /\ last' = Op(op, res, NoRecord)
  /\ UNCHANGED <<driverVars, pageVars, float, surfOnly, fresh, sentFor>>

\* A browser number not in use.
NewBrowser(a) ==
  CHOOSE n \in 1..(MaxBrowsers + 2 * MaxCalls + 2) :
    /\ n \notin a.live
    /\ n # a.browser
    /\ n # a.lost
    /\ \A c \in 1..MaxCalls : a.calls[c].b # n

\* Where launchBrowser goes once no browser is left to close, lines
\* 135-151: the url test, then the call of puppeteer.launch.
AfterClose(url) == IF url THEN "launch" ELSE "return"

\* What a handler that returns after closeBrowser answers, lines 136-144
\* and 923-930.
ResultAfterClose(op, next) ==
  IF next # "return" THEN ""
  ELSE IF op = "close_browser" THEN "closed"
  ELSE "URL is required"

\* closeBrowser that closes nothing.
closeBrowserEnterSkips(a, c, op, url, next) ==
  [a EXCEPT !.calls[c] = [op |-> op, pc |-> next, b |-> 0, p |-> 0,
                          url |-> url, res |-> ResultAfterClose(op, next)]]

\* closeBrowser, lines 945-952, up to "await browser.close()", which ends
\* the browser; next is where the caller goes on when there is none.
closeBrowserEnter(a, c, op, url, next) ==
  IF a.browser # 0
  THEN [a EXCEPT !.live = @ \ {a.browser},
                 !.calls[c] = [op |-> op, pc |-> "close", b |-> a.browser,
                               p |-> 0, url |-> url, res |-> ""]]
  ELSE [a EXCEPT !.calls[c] = [op |-> op, pc |-> next, b |-> 0, p |-> 0,
                               url |-> url,
                               res |-> ResultAfterClose(op, next)]]

\* closeBrowser after the await, lines 948-950.
closeBrowserResume(a, c, next) ==
  [a EXCEPT !.browser = 0, !.page = 0, !.elementInfo = NoInfo,
            !.calls[c].pc = next, !.calls[c].b = 0,
            !.calls[c].res = ResultAfterClose(a.calls[c].op, next)]

\* The catch block of launchBrowser, lines 170-182, entered from a step.
launchCatch(a, c, step) ==
  [a EXCEPT !.failed = step, !.lost = a.calls[c].b,
            !.calls[c].pc = "return",
            !.calls[c].res = "Error launching browser"]

\* launchBrowser, lines 129-151: a request arrives.
LaunchEnter(c, url) ==
  /\ async.calls[c].pc = "done"
  /\ Cardinality(async.live) < MaxBrowsers
  /\ async' = closeBrowserEnter(async, c, "launch_browser", url,
                                AfterClose(url))
  /\ AsyncDone("launch_browser", "called")

\* closeBrowserTool, lines 920-922: a request arrives.
CloseEnter(c) ==
  /\ async.calls[c].pc = "done"
  /\ async' = closeBrowserEnter(async, c, "close_browser", FALSE, "return")
  /\ AsyncDone("close_browser", "called")

\* browser.close() has settled; launchBrowser goes on to line 135.
CloseResume(c) ==
  /\ async.calls[c].pc = "close"
  /\ async' = closeBrowserResume(async, c,
                IF async.calls[c].op = "launch_browser"
                THEN AfterClose(async.calls[c].url)
                ELSE "return")
  /\ AsyncDone(async.calls[c].op, "closed")

\* puppeteer.launch has settled: a browser runs, line 147 assigns it and
\* line 153 asks it for a page.
LaunchResume(c) ==
  /\ async.calls[c].pc = "launch"
  /\ LET n == NewBrowser(async)
     IN async' = [async EXCEPT !.live = @ \cup {n},
                               !.browser = n,
                               !.calls[c].pc = "newPage",
                               !.calls[c].b = n]
  /\ AsyncDone("launch_browser", "started")

\* puppeteer.launch has thrown: no browser runs.
LaunchFails(c) ==
  /\ async.calls[c].pc = "launch"
  /\ async' = launchCatch(async, c, "launch")
  /\ AsyncDone("launch_browser", "threw")

\* browser.newPage() has settled, line 153, which assigns the page; line
\* 154 asks it to navigate.
NewPageResume(c) ==
  /\ async.calls[c].pc = "newPage"
  /\ async.calls[c].b \in async.live
  /\ async' = [async EXCEPT !.page = async.calls[c].b,
                            !.calls[c].pc = "goto"]
  /\ AsyncDone("launch_browser", "page")

\* browser.newPage() has thrown, as it does on a closed browser.
NewPageFails(c) ==
  /\ async.calls[c].pc = "newPage"
  /\ async' = launchCatch(async, c, "newPage")
  /\ AsyncDone("launch_browser", "threw")

\* page.goto has settled, line 154; line 157 reads the variable page and
\* asks that page for a screenshot, which throws when the variable is null.
GotoResume(c) ==
  /\ async.calls[c].pc = "goto"
  /\ async.calls[c].b \in async.live
  /\ async' = IF async.page = 0
              THEN launchCatch(async, c, "screenshot")
              ELSE [async EXCEPT !.calls[c].pc = "screenshot",
                                 !.calls[c].p = async.page]
  /\ AsyncDone("launch_browser", "navigated")

\* page.goto has thrown.
GotoFails(c) ==
  /\ async.calls[c].pc = "goto"
  /\ async' = launchCatch(async, c, "goto")
  /\ AsyncDone("launch_browser", "threw")

\* page.screenshot has settled, line 157; lines 159-169 build the result.
ScreenshotResume(c) ==
  /\ async.calls[c].pc = "screenshot"
  /\ async.calls[c].p \in async.live
  /\ async' = [async EXCEPT !.calls[c].pc = "return",
                            !.calls[c].res = "launched"]
  /\ AsyncDone("launch_browser", "captured")

\* page.screenshot has thrown.
ScreenshotFails(c) ==
  /\ async.calls[c].pc = "screenshot"
  /\ async' = launchCatch(async, c, "screenshot")
  /\ AsyncDone("launch_browser", "threw")

\* The handler returns its result.
Return(c) ==
  /\ async.calls[c].pc = "return"
  /\ async' = [async EXCEPT !.calls[c] = NoCall]
  /\ AsyncDone(async.calls[c].op, async.calls[c].res)

\* A handler's call record: b and p are the browser and the page it works
\* with (a page is named by the number of its browser).
Call(op, pc, b, p, res) ==
  [op |-> op, pc |-> pc, b |-> b, p |-> p, url |-> FALSE, res |-> res]

\* elementInfo as getElementInfo assigns it, lines 791-795, with the page
\* the record was read from.
InfoFrom(p) == [set |-> TRUE, session |-> p]

\* getElementInfo, lines 758-775: a request arrives; page.evaluate is
\* called on the page the variable names at that moment.
GetInfoEnter(c) ==
  /\ async.calls[c].pc = "done"
  /\ async' = [async EXCEPT !.calls[c] =
       IF async.browser = 0 \/ async.page = 0
       THEN Call("get_element_info", "return", 0, 0,
                 "Browser is not launched")
       ELSE Call("get_element_info", "evaluate", 0, async.page, "")]
  /\ AsyncDone("get_element_info", "called")

\* page.evaluate has settled with what window.selectedElement holds, lines
\* 777-797: without a record the handler returns; with one it assigns
\* elementInfo and asks the page the variable names now for a screenshot,
\* which throws when the variable is null.
GetInfoResume(c, found) ==
  /\ async.calls[c].op = "get_element_info"
  /\ async.calls[c].pc = "evaluate"
  /\ async.calls[c].p \in async.live
  /\ async' =
       IF ~found
       THEN [async EXCEPT !.calls[c].pc = "return",
                          !.calls[c].res = "No element selected"]
       ELSE [async EXCEPT !.elementInfo = InfoFrom(async.calls[c].p),
                          !.calls[c].pc =
                             IF async.page = 0 THEN "return" ELSE "capture",
                          !.calls[c].p = async.page,
                          !.calls[c].res =
                             IF async.page = 0
                             THEN "Error getting element info" ELSE ""]
  /\ AsyncDone("get_element_info", "read")

\* page.evaluate has thrown, as it does when the page's browser is closed.
GetInfoFails(c) ==
  /\ async.calls[c].op = "get_element_info"
  /\ async.calls[c].pc = "evaluate"
  /\ async' = [async EXCEPT !.calls[c].pc = "return",
                            !.calls[c].res = "Error getting element info"]
  /\ AsyncDone("get_element_info", "threw")

\* The screenshot of getElementInfo or modifyElement has settled, lines
\* 797 and 890: taken, or thrown on a page whose browser is closed.
CaptureSettles(c) ==
  /\ async.calls[c].pc = "capture"
  /\ async' = [async EXCEPT
       !.calls[c].pc = "return",
       !.calls[c].res =
          IF async.calls[c].p \notin async.live
          THEN IF async.calls[c].op = "modify_element"
               THEN "Error modifying element"
               ELSE "Error getting element info"
          ELSE IF async.calls[c].op = "modify_element" THEN "modified"
          ELSE "selected"]
  /\ AsyncDone(async.calls[c].op, "captured")

\* modifyElement, lines 839-879: a request arrives; with a session and a
\* remembered element it asks the page the variable names to change what
\* the remembered selector matches.  b is the page the selector was read
\* from.
ModifyEnter(c) ==
  /\ async.calls[c].pc = "done"
  /\ async' = [async EXCEPT !.calls[c] =
       IF async.browser = 0 \/ async.page = 0
       THEN Call("modify_element", "return", 0, 0, "Browser is not launched")
       ELSE IF ~async.elementInfo.set
       THEN Call("modify_element", "return", 0, 0, "No element selected")
       ELSE Call("modify_element", "modify", async.elementInfo.session,
                 async.page, "")]
  /\ AsyncDone("modify_element", "called")

\* The page.evaluate of modifyElement has settled, lines 871-887; line 890
\* asks the page the variable names now for a screenshot.
ModifyResume(c) ==
  /\ async.calls[c].pc = "modify"
  /\ async' =
       IF async.calls[c].p \notin async.live \/ async.page = 0
       THEN [async EXCEPT !.calls[c].pc = "return",
                          !.calls[c].res = "Error modifying element"]
       ELSE [async EXCEPT !.calls[c].pc = "capture",
                          !.calls[c].p = async.page]
  /\ AsyncDone("modify_element", "changed")

(***************************************************************************)
(* Selectors as text.  getSelector builds a string and the page's          *)
(* querySelector parses it as CSS.  An id is a sequence of characters:     *)
(* "a" stands for a letter, "1" for a digit, "." and ":" for themselves.   *)
(***************************************************************************)
MaxIdLen == 3
IdChars == {"a", "1", ".", ":"}
IdTexts == UNION {[1..n -> IdChars] : n \in 1..MaxIdLen}

\* The document of the page under inspection when its button has the id:
\* body > (div.box > button#<id>), div.
DocId(id, n) == IF n = 2 THEN id ELSE <<>>
DocClasses(n) == IF n = 1 THEN {<<"b", "o", "x">>} ELSE {}

\* getSelector for an element with an id, lines 440-442.
idSelector(id) == <<"#">> \o id

\* CSS: the characters of a name, and those a name may start with.
IsName(c) == c \in {"a", "1"}
IsNameStart(c) == c = "a"

\* The longest prefix of name characters.
RECURSIVE TakeName(_)
TakeName(text) ==
  IF text = <<>> \/ ~IsName(Head(text)) THEN <<>>
  ELSE <<Head(text)>> \o TakeName(Tail(text))

Drop(text, n) == SubSeq(text, n + 1, Len(text))

SyntaxError == [ok |-> FALSE, id |-> <<>>, classes |-> {}]

\* What follows the id in a compound selector: class selectors ".name".
\* A ":" starts a pseudo-class, and no name over these characters is one
\* the browser knows.
RECURSIVE parseClasses(_)
parseClasses(text) ==
  IF text = <<>> THEN [ok |-> TRUE, classes |-> {}]
  ELSE IF Head(text) = "." /\ Len(text) > 1 /\ IsNameStart(text[2])
  THEN LET name == TakeName(Tail(text))
           rest == parseClasses(Drop(text, 1 + Len(name)))
       IN [ok |-> rest.ok, classes |-> {name} \cup rest.classes]
  ELSE [ok |-> FALSE, classes |-> {}]

\* The browser's parse of the selector in document.querySelector, lines
\* 872 and 882: "#" and an identifier, then classes.
parseSelector(text) ==
  IF Len(text) < 2 \/ text[1] # "#" \/ ~IsNameStart(text[2])
  THEN SyntaxError
  ELSE LET name == TakeName(Tail(text))
           rest == parseClasses(Drop(text, 1 + Len(name)))
       IN IF rest.ok
          THEN [ok |-> TRUE, id |-> name, classes |-> rest.classes]
          ELSE SyntaxError

\* In place of a node: the call threw.
Thrown == [k |-> "SyntaxError", g |-> 0]

\* document.querySelector(text) in the document whose button has the id:
\* it throws on a selector that does not parse; else the first match in
\* document order, NullT when none.
querySelectorText(id, text) ==
  LET sel == parseSelector(text)
      hits == {n \in PageIds : /\ DocId(id, n) = sel.id
                               /\ sel.classes \subseteq DocClasses(n)}
  IN IF ~sel.ok THEN Thrown
     ELSE IF hits = {} THEN NullT
     ELSE PageT(CHOOSE n \in hits : \A m \in hits : n <= m)

\* The callback of page.evaluate, lines 871-878 and 882-887, once the
\* query has answered: with an element it changes that element, with null
\* it does nothing, and a query that threw makes the call throw.
evaluateChangeNoTest(element) ==
  [thrown |-> element \in {Thrown, NullT},
   changed |-> IF element \in PageElems THEN {element} ELSE {}]

evaluateChange(element) ==
  [thrown |-> element = Thrown,
   changed |-> IF element \in PageElems THEN {element} ELSE {}]

\* The operator selects the button and the driver modifies it at once:
\* getSelector at line 524, and modifyElement from line 866 on, whose
\* exceptions are caught at line 906.  out.styled and out.replaced are the
\* elements the css side and the html side changed.
SelectThenModify(css, html) ==
  /\ last.op = "document"
  /\ LET id == last.out.id
         selector == idSelector(id)
         element == querySelectorText(id, selector)
         change == evaluateChange(element)
         runCss == css # "none"
         runHtml == html \notin {"none", ""}
         thrown == (runCss \/ runHtml) /\ change.thrown
         styled == IF runCss /\ css # "{}" /\ ~thrown THEN change.changed
                   ELSE {}
         replaced == IF runHtml /\ ~thrown THEN change.changed ELSE {}
     IN last' = Op("modify_element",
                   IF thrown THEN "Error modifying element" ELSE "modified",
                   [set |-> TRUE, id |-> id, selector |-> selector,
                    element |-> element, css |-> css, html |-> html,
                    styled |-> styled, replaced |-> replaced,
                    changed |-> styled \cup replaced])
  /\ UNCHANGED <<driverVars, pageVars, float, async, surfOnly, fresh,
                 sentFor>>

(***************************************************************************)
(* The place of the dialog.  Lengths are in CSS pixels.  A rectangle is    *)
(* what getBoundingClientRect returns: edges relative to the viewport.     *)
(***************************************************************************)
\* The dialog's style.width and style.padding, lines 260 and 255; with the
\* default box-sizing the box is as wide as both together.
DialogWidth == 300
DialogPadding == 10
DialogBox == DialogWidth + 2 * DialogPadding

\* The inputs: window.innerWidth, the element's left and right edge and
\* its top edge, and how far the page is scrolled down.
ViewportWidths == {300, 640, 1280}
RectEdges == {0, 100, 200, 310, 320, 600, 955, 1270}
RectTops == {0, 150}
Scrolls == {0, 120}
Rects ==
  {[left |-> l, right |-> r, top |-> t] :
     l \in RectEdges, r \in RectEdges, t \in RectTops}

Max(a, b) == IF a >= b THEN a ELSE b

\* style.left and style.top set by positionDialog, lines 492-500.
dialogLeft(rect, viewportWidth) ==
  IF rect.right + 320 < viewportWidth
  THEN rect.right + 10
  ELSE Max(10, rect.left - 310)

dialogTop(rect) == rect.top

\* positionDialog, lines 488-504, for an element rectangle in a window.
\* The dialog is positioned 'absolute' (line 253) in the document, so it
\* is drawn scrollY above the top it was given.
PositionDialog ==
  /\ last.op = "rect"
  /\ LET rect == last.out.rect
         viewportWidth == last.out.viewportWidth
         scrollY == last.out.scrollY
     IN last' = Op("positionDialog", "",
                   [set |-> TRUE, rect |-> rect,
                    viewportWidth |-> viewportWidth, scrollY |-> scrollY,
                    left |-> dialogLeft(rect, viewportWidth),
                    top |-> dialogTop(rect),
                    drawnTop |-> dialogTop(rect) - scrollY])
  /\ UNCHANGED <<driverVars, pageVars, float, async, surfOnly, fresh,
                 sentFor>>

Init ==
  /\ browser = FALSE
  /\ page = FALSE
  /\ elementInfo = NoInfo
  /\ eng = FreshPage.eng
  /\ dom = FreshPage.dom
  /\ draft = FreshPage.draft
  /\ slot = FreshPage.slot
  /\ style = FreshPage.style
  /\ markup = FreshPage.markup
  /\ win = FreshPage.win
  /\ sizeIn = FreshPage.sizeIn
  /\ last = Op("start", "", NoRecord)
  /\ surfOnly = TRUE
  /\ fresh = FALSE
  /\ sentFor = NullT
  /\ float = FreshFloat
  /\ async = FreshAsync

(***************************************************************************)
(* Spec: the toggle-button engine under the operator's gestures, with up   *)
(* to MaxInject injections into a page.                                    *)
(***************************************************************************)
EngineTargets ==
  PageElems \cup
  {N(k, g) : k \in {"info", "toggle", "dialog", "cancel", "submit", "dropdown"},
             g \in 1..MaxInject}

Next ==
  \/ \E args \in LaunchArgs : launchBrowser(args, "none")
  \/ inspectElement
  \/ closeBrowserTool
  \/ \E target \in EngineTargets : MouseOver(target)
  \/ \E target \in EngineTargets : Click(target)
  \/ \E text \in Texts : Type(text)

Spec == Init /\ [][Next]_vars

(***************************************************************************)
(* SpecDriver: every request of the driver, one at a time, around an       *)
(* operator who selects and annotates a page element.                      *)
(***************************************************************************)
DriverTargets ==
  {PageT(2)} \cup {N(k, g) : k \in {"toggle", "submit"}, g \in 1..MaxInject}

NextDriver ==
  \/ \E args \in LaunchArgs, fail \in LaunchSteps : launchBrowser(args, fail)
  \/ inspectElement
  \/ getElementInfo
  \/ \E css \in CssArgs, html \in HtmlArgs : modifyElement(css, html)
  \/ closeBrowserTool
  \/ \E target \in DriverTargets \cap PageElems : MouseOver(target)
  \/ \E target \in DriverTargets : Click(target)
  \/ Type(<<" ", "a", " ">>)

SpecDriver == Init /\ [][NextDriver]_vars

(***************************************************************************)
(* SpecFloat: the floating-icon engine under the operator's gestures.      *)
(***************************************************************************)
FloatTargets ==
  {PageT(3), N("cancelBtn", 0), N("sendBtn", 0)} \cup
  {N(k, g) : k \in {"floatingIcon", "selectElementButton"},
             g \in 1..MaxInject}

NextFloat ==
  \/ \E args \in LaunchArgs : launchBrowser(args, "none")
  \/ floatInspectElement
  \/ floatGetElementInfo
  \/ closeBrowserTool
  \/ FloatMouseOver(PageT(3))
  \/ \E target \in FloatTargets : FloatClick(target)
  \/ \E text \in {<<" ">>, <<" ", "a", " ">>} : FloatType(text)
  \/ TimerFires

SpecFloat == Init /\ [][NextFloat]_vars

(***************************************************************************)
(* SpecRelay: the floating-icon engine with two page elements to select,   *)
(* and the driver reading what was selected.                               *)
(***************************************************************************)
RelayTargets ==
  {PageT(2), PageT(3), N("sendBtn", 0)} \cup
  {N(k, g) : k \in {"floatingIcon", "selectElementButton"},
             g \in 1..MaxInject}

NextRelay ==
  \/ launchBrowser("url", "none")
  \/ floatInspectElement
  \/ floatGetElementInfo
  \/ \E target \in RelayTargets : FloatClick(target)
  \/ FloatType(<<" ", "a", " ">>)
  \/ TimerFires

SpecRelay == Init /\ [][NextRelay]_vars

(***************************************************************************)
(* SpecAsync: launch_browser and close_browser requests that overlap.      *)
(***************************************************************************)
NextAsync ==
  \E c \in 1..MaxCalls :
    \/ \E url \in BOOLEAN : LaunchEnter(c, url)
    \/ CloseEnter(c)
    \/ CloseResume(c)
    \/ LaunchResume(c)
    \/ LaunchFails(c)
    \/ NewPageResume(c)
    \/ NewPageFails(c)
    \/ GotoResume(c)
    \/ GotoFails(c)
    \/ ScreenshotResume(c)
    \/ ScreenshotFails(c)
    \/ Return(c)

SpecAsync == Init /\ [][NextAsync]_vars

(***************************************************************************)
(* SpecInfo: get_element_info and modify_element requests that overlap     *)
(* with launch_browser and close_browser requests, every step succeeding   *)
(* unless its browser is closed.                                           *)
(***************************************************************************)
NextInfo ==
  \E c \in 1..MaxCalls :
    \/ LaunchEnter(c, TRUE)
    \/ CloseEnter(c)
    \/ CloseResume(c)
    \/ LaunchResume(c)
    \/ NewPageResume(c)
    \/ GotoResume(c)
    \/ ScreenshotResume(c)
    \/ \E found \in BOOLEAN : GetInfoEnter(c) \/ GetInfoResume(c, found)
    \/ GetInfoFails(c)
    \/ CaptureSettles(c)
    \/ ModifyEnter(c)
    \/ ModifyResume(c)
    \/ Return(c)

SpecInfo == Init /\ [][NextInfo]_vars

(***************************************************************************)
(* SpecTarget: the driver reading and changing elements while the operator *)
(* selects one page element and then another.                              *)
(***************************************************************************)
TargetElems == {PageT(2), PageT(3)}

NextTarget ==
  \/ launchBrowser("url", "none")
  \/ inspectElement
  \/ getElementInfo
  \/ \E html \in {"none", "h1"} : modifyElement("c1", html)
  \/ \E target \in TargetElems : MouseOver(target)
  \/ \E target \in TargetElems \cup {N("toggle", 1), N("submit", 1)} :
       Click(target)
  \/ Type(<<" ", "a", " ">>)

SpecTarget == Init /\ [][NextTarget]_vars

(***************************************************************************)
(* SpecRecover: launch_browser and close_browser requests one after the    *)
(* other, each step of a launch succeeding or throwing.                    *)
(***************************************************************************)
NextRecover ==
  \/ \E url \in BOOLEAN : LaunchEnter(1, url)
  \/ CloseEnter(1)
  \/ CloseResume(1)
  \/ LaunchResume(1)
  \/ LaunchFails(1)
  \/ NewPageResume(1)
  \/ NewPageFails(1)
  \/ GotoResume(1)
  \/ GotoFails(1)
  \/ ScreenshotResume(1)
  \/ ScreenshotFails(1)
  \/ Return(1)

SpecRecover == Init /\ [][NextRecover]_vars

(***************************************************************************)
(* SpecSelector: the selector of a button whose id is drawn from IdTexts,  *)
(* resolved by the page.                                                   *)
(***************************************************************************)
InitSelector ==
  /\ browser = TRUE
  /\ page = TRUE
  /\ elementInfo = NoInfo
  /\ eng = FreshPage.eng
  /\ dom = FreshPage.dom
  /\ draft = FreshPage.draft
  /\ slot = FreshPage.slot
  /\ style = FreshPage.style
  /\ markup = FreshPage.markup
  /\ win = FreshPage.win
  /\ sizeIn = FreshPage.sizeIn
  /\ \E id \in IdTexts : last = Op("document", "", [set |-> FALSE, id |-> id])
  /\ surfOnly = TRUE
  /\ fresh = FALSE
  /\ sentFor = NullT
  /\ float = FreshFloat
  /\ async = FreshAsync

NextSelector ==
  \E css \in CssArgs, html \in HtmlArgs : SelectThenModify(css, html)

SpecSelector == InitSelector /\ [][NextSelector]_vars

(***************************************************************************)
(* SpecDialog: positionDialog over element rectangles and window widths.   *)
(***************************************************************************)
InitDialog ==
  /\ browser = TRUE
  /\ page = TRUE
  /\ elementInfo = NoInfo
  /\ eng = FreshPage.eng
  /\ dom = FreshPage.dom
  /\ draft = FreshPage.draft
  /\ slot = FreshPage.slot
  /\ style = FreshPage.style
  /\ markup = FreshPage.markup
  /\ win = FreshPage.win
  /\ sizeIn = FreshPage.sizeIn
  /\ \E rect \in Rects, w \in ViewportWidths, y \in Scrolls :
       /\ rect.left < rect.right
       /\ rect.right <= w
       /\ last = Op("rect", "", [set |-> FALSE, rect |-> rect,
                                 viewportWidth |-> w, scrollY |-> y])
  /\ surfOnly = TRUE
  /\ fresh = FALSE
  /\ sentFor = NullT
  /\ float = FreshFloat
  /\ async = FreshAsync

NextDialog == PositionDialog

SpecDialog == InitDialog /\ [][NextDialog]_vars

(***************************************************************************)
(* SpecResize: the device selector under an operator who also selects a    *)
(* page element, with up to MaxInject injections into a page.              *)
(***************************************************************************)
\* Values of the dropdown's options, lines 333-338: the first and the
\* last profile.
DeviceIndexes == {0, Len(deviceSizes) - 1}

ResizeTargets ==
  {PageT(2), N("toggle", 1)} \cup {N("apply", g) : g \in 1..MaxInject}

NextResize ==
  \/ launchBrowser("url", "none")
  \/ inspectElement
  \/ \E target \in ResizeTargets \cap PageElems : MouseOver(target)
  \/ \E target \in ResizeTargets : Click(target)
  \/ \E field \in {1, 2}, text \in SizeTexts : TypeSize(field, text)
  \/ \E g \in 1..MaxInject, index \in DeviceIndexes :
       ChooseDevice(N("dropdown", g), index)

SpecResize == Init /\ [][NextResize]_vars

(***************************************************************************)
(* Properties.                                                             *)
(***************************************************************************)
DialogShown ==
  \E i \in 1..Len(eng) : InDom(Page, N("dialog", i)) /\ eng[i].dlgDisp

\* The selection state of every closure: mode flag, hovered target, locked
\* flag, locked element.
SelectionState ==
  [i \in 1..Len(eng) |->
     <<eng[i].active, eng[i].cur, eng[i].locked, eng[i].sel>>]

\* C1: after a successful inspect_element, however many were made before
\* on the page, the document holds exactly one overlay, info panel, dialog,
\* toggle button and device picker, at most one highlight box, and the
\* engine just injected is idle.
C1_OneOfEachSurface ==
  (last.op = "inspect_element" /\ last.res = "enabled") =>
    /\ \A k \in {"overlay", "info", "dialog", "toggle", "devsel"} :
         CountOf(Page, k) = 1
    /\ CountOf(Page, "highlight") <= 1
    /\ IdleEngine(eng)

\* C2: with the dialog open, a click on the send button while the text is
\* empty or white space writes neither slot and leaves the dialog open on
\* the same element.
C2_EmptySubmitKeepsDialog ==
  [][(/\ FloatClick(N("sendBtn", 0))
      /\ Len(float.dialogs) = 1
      /\ Trim(float.dialogs[1].draft) = <<>>)
     => /\ float'.slot = float.slot
        /\ float'.message = float.message
        /\ Len(float'.dialogs) = 1
        /\ float'.dialogs[1].target = float.dialogs[1].target]_vars

\* C3: with the dialog open, a click on the submit button while the trimmed
\* text is not empty writes the record with that text, closes the dialog,
\* and leaves no element locked.
C3_SubmitUnlocks ==
  [][\A g \in 1..MaxInject :
       (Click(N("submit", g)) /\ DialogShown /\ Trim(draft) # <<>>)
       => /\ slot'.set /\ slot'.msg = Trim(draft)
          /\ ~DialogShown'
          /\ ~Newest(eng').locked
          /\ Newest(eng').sel = NullT]_vars

\* C4: the dialog is never visible while, since the engine was last idle,
\* the operator has pointed at and clicked on engine surfaces only.
C4_NoDialogBySurfaceClicks == ~(DialogShown /\ surfOnly)

\* C5: a click on an engine surface other than the toggle button (info
\* panel, dialog and its buttons, device dropdown) leaves mode flag, hovered
\* target, locked flag and locked element of the engine as they were.
C5_SurfaceClickKeepsSelection ==
  [][\A k \in {"info", "dialog", "cancel", "submit", "dropdown"},
        g \in 1..MaxInject :
       Click(N(k, g)) => SelectionState' = SelectionState]_vars

\* C6: modify_element, while the browser is up and the record slot of its
\* page is empty, answers 'No element selected' and leaves the page as it
\* was.
C6_ModifyWithoutRecord ==
  [][\A css \in CssArgs, html \in HtmlArgs :
       (modifyElement(css, html) /\ browser /\ page /\ ~slot.set)
       => /\ last'.res = "No element selected"
          /\ UNCHANGED pageVars]_vars

\* A modify_element was answered 'No element selected' in a session where
\* the engine is injected and the slot is empty.
C6_Witness ==
  /\ browser /\ page
  /\ Len(eng) > 0
  /\ ~slot.set
  /\ last.op = "modify_element"
  /\ last.res = "No element selected"

\* C7: whatever way launch_browser and close_browser calls overlap, every
\* browser running is the one the driver's variable refers to, so at most
\* one runs.
C7_OneLiveSession ==
  /\ Cardinality(async.live) <= 1
  /\ \A b \in async.live : b = async.browser

\* C8: while a page is loaded, window.selectedElement changes only in a
\* click on the send button of the dialog with text that is not empty.
C8_SlotWrittenOnlyBySubmit ==
  [][(browser /\ browser' /\ float'.slot # float.slot
      /\ last'.op \notin {"launch_browser", "close_browser"})
     => /\ FloatClick(N("sendBtn", 0))
        /\ Len(float.dialogs) = 1
        /\ Trim(float.dialogs[1].draft) # <<>>]_vars

\* C9: a get_element_info made after an inspect_element, with no text
\* submitted in between, answers 'No element selected'.
C9_ReinjectionClearsSlot ==
  (fresh /\ last.op = "get_element_info") =>
    last.res = "No element selected"

\* C10: a step that is no submit and does not end the page leaves what a
\* read of the record slot returns (selector, markup, style, message) as it
\* was.
C10_RecordConstant ==
  [][(browser /\ browser'
      /\ last'.op \notin {"submit", "launch_browser", "close_browser"})
     => ReadSlot(Page)' = ReadSlot(Page)]_vars

\* C11: a get_element_info that returns a message returns it with the
\* selector of the element whose dialog that message was sent from.
C11_MessageOfSameSelection ==
  (last.op = "get_element_info" /\ last.res = "selected"
   /\ last.out.msg # <<>>)
  => /\ sentFor # NullT
     /\ last.out.selector = getUniqueSelector(float, sentFor)

\* Some overlay, info panel, highlight box or dialog in the document is
\* displayed.
OverlayShown ==
  \E i \in 1..Len(eng) :
    \/ InDom(Page, N("overlay", i)) /\ eng[i].ovDisp
    \/ InDom(Page, N("info", i)) /\ eng[i].infoDisp
    \/ InDom(Page, N("highlight", i)) /\ eng[i].hbDisp
    \/ InDom(Page, N("dialog", i)) /\ eng[i].dlgDisp

\* C12: a click on the toggle button while its engine is in selection mode
\* leaves that engine with selection mode off, nothing hovered and nothing
\* locked, and no overlay, info panel, highlight box or dialog displayed.
C12_ToggleOffYieldsIdle ==
  [][\A g \in 1..MaxInject :
       (Click(N("toggle", g)) /\ eng[g].active)
       => /\ ~eng'[g].active
          /\ eng'[g].cur = NullT
          /\ ~eng'[g].locked
          /\ eng'[g].sel = NullT
          /\ ~OverlayShown']_vars

\* C13: close_browser answers success and leaves no browser, no page and
\* no remembered element; with no session open it changes nothing, so a
\* second close_browser leaves what the first left.
C13_CloseIdempotent ==
  [][closeBrowserTool
     => /\ last'.res = "closed"
        /\ ~browser' /\ ~page' /\ ~elementInfo'.set
        /\ ~browser => UNCHANGED <<driverVars, pageVars>>]_vars

\* A close_browser was answered while no session was open.
C13_Witness ==
  /\ last.op = "close_browser"
  /\ last.res = "closed"
  /\ ~last.out.session
  /\ ~browser /\ ~page /\ ~elementInfo.set

C15_NoUrlIsRequired ==
  [][\A args \in LaunchArgs \ {"url"}, fail \in LaunchSteps :
       launchBrowser(args, fail)
       => /\ last'.res = "URL is required"
          /\ ~browser' /\ ~page']_vars

\* C15, amended: a launch_browser without a url leaves no browser and no
\* page and answers with an error: 'URL is required' when the arguments
\* hold no url, the caught exception when there are no arguments.
C15_NoUrlFails ==
  [][\A args \in LaunchArgs \ {"url"}, fail \in LaunchSteps :
       launchBrowser(args, fail)
       => /\ last'.res = (IF args = "empty" THEN "URL is required"
                          ELSE "Error launching browser")
          /\ ~browser' /\ ~page']_vars

\* A launch_browser without a url was answered 'URL is required'.
C15_Witness ==
  /\ last.op = "launch_browser"
  /\ last.res = "URL is required"
  /\ ~browser /\ ~page

\* C16: a launch_browser step that throws makes the call answer with an
\* error; and when a launch_browser returns success after an earlier one
\* failed, exactly one browser runs, it is the one the driver's variables
\* refer to, and the browser of the failed call does not run.
C16_RecoversAfterFailedLaunch ==
  /\ [][\A step \in {LaunchFails(1), NewPageFails(1), GotoFails(1),
                     ScreenshotFails(1)} :
          step => /\ async'.calls[1].pc = "return"
                  /\ async'.calls[1].res = "Error launching browser"]_vars
  /\ []((/\ async.failed # "none"
         /\ last.op = "launch_browser"
         /\ last.res = "launched")
        => /\ async.live = {async.browser}
           /\ async.page = async.browser
           /\ async.lost \notin async.live)

\* A launch_browser returned success after one had failed in page.goto,
\* which left its browser running.
C16_Witness ==
  /\ async.failed = "goto"
  /\ async.lost # 0
  /\ last.op = "launch_browser"
  /\ last.res = "launched"
  /\ async.live = {async.browser}

\* C17: after close_browser, inspect_element, get_element_info and
\* modify_element answer 'Browser is not launched' until a launch_browser
\* succeeds.  Step by step: close_browser leaves no browser and no page,
\* whatever the engine held; while either is missing the three requests
\* answer 'Browser is not launched'; and only a launch_browser that
\* answers success brings both back.
C17_ClosedUntilLaunchSucceeds ==
  [][/\ closeBrowserTool => (~browser' /\ ~page')
     /\ (~(browser /\ page) /\ last'.op \in {"inspect_element",
                                             "get_element_info",
                                             "modify_element"})
        => last'.res = "Browser is not launched"
     /\ (~(browser /\ page) /\ browser' /\ page')
        => (last'.op = "launch_browser" /\ last'.res = "launched")]_vars

\* C18: for a button whose id no other element has, the selector built
\* for it resolves to the button, and a modify_element issued right after
\* selecting it, with css or html to apply, changes the button and nothing
\* else.
C18_IdSelectorRoundTrip ==
  last.op = "modify_element"
  => /\ last.out.element = PageT(2)
     /\ (last.out.css = "c1" \/ last.out.html = "h1")
        => /\ last.res = "modified"
           /\ last.out.changed = {PageT(2)}

\* The element a modify_element is about to change.
ModifyTarget == querySelector(Page, elementInfo.selector)

\* C19: a modify_element with css and no html sets the given style on the
\* element the selector matches and changes no markup; with html and no
\* css it puts the given markup in place of that element's and changes no
\* style.
C19_OneSideOnly ==
  [][\A css \in CssArgs, html \in HtmlArgs :
       (/\ modifyElement(css, html)
        /\ browser /\ page /\ elementInfo.set
        /\ ModifyTarget \in PageElems)
       => /\ (css # "none" /\ html = "none")
             => /\ style' = IF css = "{}" THEN style
                            ELSE [style EXCEPT ![ModifyTarget.g] = css]
                /\ markup' = markup
          /\ (css = "none" /\ html # "none")
             => /\ markup' = [markup EXCEPT ![ModifyTarget.g] = html]
                /\ style' = style]_vars

\* C20: when the selector matches no element, modify_element changes no
\* element and answers success, whether it was given css, html or both.
C20_NoMatchIsSilent ==
  (last.op = "modify_element" /\ last.out.element = NullT)
  => /\ last.res = "modified"
     /\ last.out.styled = {}
     /\ last.out.replaced = {}

\* A modify_element with css and html whose selector matched no element.
C20_Witness ==
  /\ last.op = "modify_element"
  /\ last.out.element = NullT
  /\ last.out.css = "c1"
  /\ last.out.html = "h1"
  /\ last.res = "modified"

\* Closure g is in selection mode with a hovered target and nothing locked.
Hovering(g) ==
  /\ g <= Len(eng)
  /\ eng[g].active /\ ~eng[g].locked /\ eng[g].cur # NullT

\* Closure g holds a locked element.
Locked(g) ==
  /\ g <= Len(eng)
  /\ eng[g].active /\ eng[g].locked /\ eng[g].sel # NullT

\* C21: in Hovering, a click on a page element locks the element clicked:
\* it is the locked element, the highlight box covers it in the locked
\* colours and the info panel shows the locked hint for it.
C21_ClickLocksTarget ==
  [][\A g \in 1..MaxInject, n \in PageIds :
       (Hovering(g) /\ Click(PageT(n)))
       => /\ eng'[g].locked
          /\ eng'[g].sel = PageT(n)
          /\ eng'[g].hbDisp /\ eng'[g].hbEl = PageT(n) /\ eng'[g].hbSel
          /\ eng'[g].infoDisp
          /\ eng'[g].info = [kind |-> "locked", el |-> PageT(n),
                             msg |-> <<>>]]_vars

\* C22: in Locked, a click on a page element outside the locked element
\* unlocks: nothing is locked, the element clicked is the hovered target,
\* and the highlight box covers it in the exploring colours.
C22_ClickOutsideUnlocks ==
  [][\A g \in 1..MaxInject, n \in PageIds :
       (/\ Locked(g)
        /\ ~Contains(eng[g].sel, PageT(n))
        /\ Click(PageT(n)))
       => /\ ~eng'[g].locked
          /\ eng'[g].sel = NullT
          /\ eng'[g].cur = PageT(n)
          /\ eng'[g].hbDisp /\ eng'[g].hbEl = PageT(n) /\ ~eng'[g].hbSel]_vars

\* No closure is in selection mode.
SelectionModeOff == \A i \in 1..Len(eng) : ~eng[i].active

FloatInactiveIsInert ==
  [][\A n \in PageIds :
       (/\ ~AnyActive(float)
        /\ (FloatMouseOver(PageT(n)) \/ FloatClick(PageT(n))))
       => /\ float'.hl = float.hl
          /\ float'.dialogs = float.dialogs
          /\ float'.slot = float.slot
          /\ float'.message = float.message
          /\ float'.bg = float.bg
          /\ float'.listeners = float.listeners
          /\ \A i \in 1..Len(float.eng) :
               float'.eng[i].active = float.eng[i].active]_vars

\* Cancel in the toggle-button engine: a click on the cancel button of a
\* shown dialog hides that dialog, empties the textarea, writes no record
\* and leaves the closure locked on the same element.
CancelReturnsToLocked ==
  [][\A g \in 1..MaxInject :
       (/\ Locked(g)
        /\ eng[g].dlgDisp
        /\ Click(N("cancel", g)))
       => /\ ~eng'[g].dlgDisp
          /\ draft' = <<>>
          /\ slot' = slot
          /\ eng'[g].active /\ eng'[g].locked
          /\ eng'[g].sel = eng[g].sel]_vars

\* C24: with a dialog open, a click on its Cancel button takes that dialog
\* away together with its text and writes no record: here for the
\* floating-icon engine, whose dialog is removed from the document.
C24_CancelClosesDialog ==
  [][(/\ Len(float.dialogs) > 0
      /\ FloatClick(N("cancelBtn", 0)))
     => /\ Len(float'.dialogs) = Len(float.dialogs) - 1
        /\ float'.slot = float.slot
        /\ float'.message = float.message]_vars

\* C25: an info panel that is shown tells the selection state of its
\* closure: in Hovering the hover summary of the hovered element, in
\* Locked the locked summary of the locked element, and never an element
\* that is neither hovered nor locked.
C25_PanelShowsState ==
  \A i \in 1..Len(eng) :
    (InDom(Page, N("info", i)) /\ eng[i].infoDisp)
    => /\ Hovering(i)
          => eng[i].info = [kind |-> "hover", el |-> eng[i].cur,
                            msg |-> <<>>]
       /\ Locked(i)
          => eng[i].info = [kind |-> "locked", el |-> eng[i].sel,
                            msg |-> <<>>]
       /\ eng[i].info.el # NullT
          => eng[i].info.el \in {eng[i].cur, eng[i].sel}

\* C26: the document never holds more than one highlight box; and no
\* gesture of the operator removes one or adds one while there is one:
\* hiding keeps the node, showing again positions the same node.
C26_OneHighlightBox ==
  /\ [](CountOf(Page, "highlight") <= 1)
  /\ [][last'.op \in {"mouseover", "click", "toggle", "submit", "type"}
        => \A i \in 1..Len(eng) :
             InDom(Page, N("highlight", i))
             => /\ InDom(Page, N("highlight", i))'
                /\ CountOf(Page, "highlight")' = CountOf(Page, "highlight")]_vars

\* style.zIndex of a node, lines 227, 242, 258, 284, 299 and 400; page
\* content has none.
zIndex(t) ==
  CASE t.k = "overlay" -> 9999
    [] t.k = "info" -> 10000
    [] t.k = "dialog" -> 10002
    [] t.k = "toggle" -> 10003
    [] t.k = "devsel" -> 10003
    [] t.k = "highlight" -> 2147483647
    [] OTHER -> 0

\* The rank the stacking order gives a kind of node.
StackRank(t) ==
  CASE t.k = "page" -> 0
    [] t.k = "highlight" -> 1
    [] t.k = "info" -> 2
    [] t.k = "dialog" -> 3
    [] t.k = "toggle" -> 4
    [] OTHER -> -1

\* C27: of any two nodes in the document, the one lower in the order
\* page content, highlight box, info panel, dialog, toggle button has the
\* smaller z-index.
C27_StackingOrder ==
  \A a \in PageElems \cup {dom[i] : i \in 1..Len(dom)},
     b \in {dom[i] : i \in 1..Len(dom)} :
    (StackRank(a) >= 0 /\ StackRank(a) < StackRank(b))
    => zIndex(a) < zIndex(b)

\* C28: the dialog is put to the right of the element or else to its
\* left, its box lies between the left and the right edge of the window,
\* and its top is the element's top edge.
C28_DialogInsideViewport ==
  last.op = "positionDialog"
  => LET o == last.out
     IN /\ \/ o.left >= o.rect.right
           \/ o.left + DialogBox <= o.rect.left
        /\ 0 <= o.left
        /\ o.left + DialogBox <= o.viewportWidth
        /\ o.top = o.rect.top
        /\ o.drawnTop = o.rect.top

\* A size text that is a number greater than zero, and a pair of them.
PositiveText(text) ==
  /\ IsFloatText(text)
  /\ Head(text) # "-"
  /\ \E i \in 1..Len(text) :
       /\ IsDigit(text[i]) /\ text[i] # "0"
       /\ \A j \in 1..i : text[j] # "e"
ValidSize == PositiveText(sizeIn[1]) /\ PositiveText(sizeIn[2])

\* C29: applying a custom size whose width or height is no number or not
\* greater than zero requests no resize, leaves the fields as they are and
\* adds nothing to the document; through the button's own listener it
\* changes nothing in the page at all.
C29_InvalidSizeIsNoOp ==
  [][\A g \in 1..MaxInject :
       (~ValidSize /\ Click(N("apply", g)))
       => /\ win' = win
          /\ sizeIn' = sizeIn
          /\ dom' = dom
          /\ HasButtonListener(Page, N("apply", g)) => UNCHANGED pageVars]_vars

C29_Witness ==
  /\ last.op = "apply"
  /\ ~ValidSize
  /\ sizeIn[1] = <<"-", "5">>
  /\ sizeIn[2] = <<"1", "2">>
  /\ win = NoSize

RECURSIVE Pow10(_)
Pow10(n) == IF n = 0 THEN 1 ELSE 10 * Pow10(n - 1)

\* The number a size text without a fraction stands for.
SizeValue(text) ==
  LET int == TakeDigits(text)
      rest == SubSeq(text, Len(int) + 1, Len(text))
  IN IF rest = <<>> THEN DigitsValue(int)
     ELSE DigitsValue(int) * Pow10(DigitsValue(Tail(rest)))

Resized(width, height) ==
  /\ win' = <<width + 16, height + 88>>
  /\ sizeIn' = <<toString(width), toString(height)>>
  /\ UNCHANGED <<eng, dom, draft, slot>>

\* C30: choosing a device profile, or applying a custom size of two
\* numbers greater than zero, requests a resize to (width + 16,
\* height + 88), writes width and height into the custom-size fields and
\* leaves selection state, highlight, dialog and selection record alone.
C30_ResizeFrame ==
  [][/\ \A g \in 1..MaxInject, index \in DeviceIndexes :
          ChooseDevice(N("dropdown", g), index)
          => Resized(deviceSizes[index + 1][1], deviceSizes[index + 1][2])
     /\ \A g \in 1..MaxInject :
          (ValidSize /\ Click(N("apply", g)))
          => Resized(SizeValue(sizeIn[1]), SizeValue(sizeIn[2]))]_vars

\* The children of an element's parent that share its tag, and the
\* element's 1-based position among them.
SameTag(p, t) == FilterTag(ChildrenOf(p, ParentElement(p, t)), TagOf(t))
FloatSameTag(f, n) ==
  Len(FilterTag(PageChildren(PageParent(n), 1), PageTag(n)))
  + (IF PageParent(n) = 0 /\ PageTag(n) = "div" THEN FloatDivs(f) ELSE 0)
FloatPosition(n) ==
  IndexOf(FilterTag(PageChildren(PageParent(n), 1), PageTag(n)), PageT(n))

RECURSIVE JoinClasses(_)
JoinClasses(classes) ==
  IF classes = <<>> THEN ""
  ELSE "." \o Head(classes) \o JoinClasses(Tail(classes))

\* C31: the selector recorded for an element without id is the tag followed
\* by all its classes when it has classes; otherwise it is the tag, with
\* :nth-child(k) appended exactly when the parent has more than one child
\* of that tag, k being the element's position among those children.  The
\* first conjunct is the toggle-button engine's record, the second the
\* floating-icon engine's.
C31_SelectorShape ==
  [][/\ (slot' # slot /\ slot'.set /\ IdOf(slot'.element) = "")
        => LET t == slot'.element
           IN slot'.selector =
                IF Len(ClassesOf(t)) > 0
                THEN Selector("class", TagOf(t), "", ClassesOf(t), 0)
                ELSE IF Len(SameTag(Page, t)) > 1
                THEN Selector("tag", TagOf(t), "", <<>>,
                              IndexOf(SameTag(Page, t), t))
                ELSE Selector("tag", TagOf(t), "", <<>>, 0)
     /\ \A n \in PageIds :
          (PageId(n) = "" /\ FloatClick(PageT(n)) /\ float'.slot # float.slot)
          => float'.slot.selector =
               IF Len(PageClasses(n)) > 0
               THEN PageTag(n) \o JoinClasses(PageClasses(n))
               ELSE IF FloatSameTag(float, n) > 1
               THEN PageTag(n) \o ":nth-child("
                    \o ToString(FloatPosition(n)) \o ")"
               ELSE PageTag(n)]_vars

\* The toggle-button engine's half of C31.
SelectorShapeToggle ==
  [][(slot' # slot /\ slot'.set /\ IdOf(slot'.element) = "")
     => LET t == slot'.element
        IN slot'.selector =
             IF Len(ClassesOf(t)) > 0
             THEN Selector("class", TagOf(t), "", ClassesOf(t), 0)
             ELSE IF Len(SameTag(Page, t)) > 1
             THEN Selector("tag", TagOf(t), "", <<>>,
                           IndexOf(SameTag(Page, t), t))
             ELSE Selector("tag", TagOf(t), "", <<>>, 0)]_vars

\* C32: in every closure of the toggle-button engine the locked flag is
\* set exactly when a locked element is recorded; when it is set, selection
\* mode is active and the locked element is the last hovered one; when
\* selection mode is inactive no element is hovered or locked.
C32_StateVariablesAgree ==
  \A i \in 1..Len(eng) :
    /\ eng[i].locked <=> eng[i].sel # NullT
    /\ eng[i].locked => eng[i].active /\ eng[i].sel = eng[i].cur
    /\ ~eng[i].active => eng[i].cur = NullT /\ eng[i].sel = NullT

C32_Witness ==
  /\ Len(eng) = 2
  /\ eng[1].locked /\ eng[1].sel = PageT(1)
  /\ ~eng[2].active /\ eng[2].tglOn = FALSE
  /\ last.op = "toggle"

\* C33: while a closure holds a locked element, with the dialog closed or
\* open, a mouseover over any element leaves that closure's hovered and
\* locked element, its highlight box and its info panel as they are.  A
\* step that leaves "mouseover" in last is a step of MouseOver.
C33_LockedIgnoresMouseOver ==
  [][\A g \in 1..MaxInject :
       (Locked(g) /\ last'.op = "mouseover")
       => /\ eng'[g] = eng[g]
          /\ InDom(Page', N("highlight", g)) = InDom(Page, N("highlight", g))
          /\ InDom(Page', N("info", g)) = InDom(Page, N("info", g))]_vars

C33_Witness ==
  /\ last.op = "mouseover"
  /\ Locked(1)
  /\ eng[1].dlgDisp
  /\ eng[1].hbSel
  /\ eng[1].cur = PageT(3)

\* The dialog of closure g is open on its locked element.
DialogOpen(g) == Locked(g) /\ eng[g].dlgDisp /\ InDom(Page, N("dialog", g))

\* C34: with the dialog open, a click on a page element outside the dialog
\* and outside the locked element closes the dialog, empties the drafted
\* text, unlocks, makes the clicked element the hovered target and writes
\* no selection record.
C34_ClickOutsideClosesDialog ==
  [][\A g \in 1..MaxInject, n \in PageIds :
       (DialogOpen(g) /\ ~Contains(eng[g].sel, PageT(n)) /\ Click(PageT(n)))
       => /\ ~eng'[g].dlgDisp
          /\ draft' = <<>>
          /\ ~eng'[g].locked
          /\ eng'[g].sel = NullT
          /\ eng'[g].cur = PageT(n)
          /\ slot' = slot]_vars

\* The dialog is open with a drafted text on the button, so that the
\* second div of body lies outside of dialog and locked element.
C34_Witness ==
  \E g \in 1..Len(eng) :
    /\ DialogOpen(g)
    /\ eng[g].sel = PageT(2)
    /\ draft = <<" ", "a", " ">>
    /\ Reachable(Page, PageT(3))

\* C35: a launch_browser request without url, with no arguments at all or
\* with arguments that hold none, leaves no session open and no remembered
\* element, whether or not a session was open before it.
C35_NoUrlClosesSession ==
  [][\A args \in LaunchArgs \ {"url"}, fail \in LaunchSteps :
       launchBrowser(args, fail)
       => ~browser' /\ ~page' /\ elementInfo' = NoInfo]_vars

C35_Witness ==
  /\ last.op = "launch_browser"
  /\ last.res = "URL is required"
  /\ ~browser
  /\ elementInfo = NoInfo
  /\ Len(eng) = 0

\* C36: however get_element_info overlaps with close_browser and
\* launch_browser, the remembered element is set only while the browser
\* it was read from runs or is being closed, and a modify_element request
\* changes the page its selector was read from.
C36_InfoFromThisSession ==
  /\ async.elementInfo.set
     => \/ async.elementInfo.session \in async.live
        \/ \E c \in 1..MaxCalls :
             /\ async.calls[c].pc = "close"
             /\ async.calls[c].b = async.elementInfo.session
  /\ \A c \in 1..MaxCalls :
       (async.calls[c].op = "modify_element" /\ async.calls[c].pc = "modify")
       => async.calls[c].b = async.calls[c].p

C38_OldHandlersInert ==
  [][\A n \in PageIds :
       (Len(eng) > 1 /\ (MouseOver(PageT(n)) \/ Click(PageT(n))))
       => \A i \in 1..(Len(eng) - 1) :
            /\ eng'[i] = eng[i]
            /\ \A k \in BodyKinds :
                 InDom(Page', N(k, i)) = InDom(Page, N(k, i))]_vars

\* C39: the document of the floating-icon engine holds at most one
\* annotation dialog.
C39_OneDialog == Len(float.dialogs) <= 1

\* The pages the operator can bring about with up to k clicks on the
\* controls alone: the floating icon and the select-element button of the
\* floating-icon engine, the toggle button of the toggle-button engine.
MaxControlClicks == 2

FloatControls ==
  {N(k, g) : k \in {"floatingIcon", "selectElementButton"},
             g \in 1..MaxInject}

RECURSIVE FloatByControls(_, _)
FloatByControls(fs, k) ==
  IF k = 0 THEN fs
  ELSE FloatByControls(
         fs \cup {floatClick(f, t) :
                    <<f, t>> \in {x \in fs \X FloatControls :
                                    FloatReachable(x[1], x[2])}},
         k - 1)

ToggleControls == {N("toggle", g) : g \in 1..MaxInject}

RECURSIVE PageByControls(_, _)
PageByControls(ps, k) ==
  IF k = 0 THEN ps
  ELSE PageByControls(
         ps \cup {dispatchClick(p, t) :
                    <<p, t>> \in {x \in ps \X ToggleControls :
                                    Reachable(x[1], x[2])}},
         k - 1)

\* The toggle-button engine's half of C40: while a closure is in selection
\* mode, clicks on the toggle button alone lead to a page where none is.
ToggleOffEnabled ==
  ~SelectionModeOff
  => \E p \in PageByControls({Page}, MaxControlClicks) :
       \A i \in 1..Len(p.eng) : ~p.eng[i].active

\* C40: from every state in which selection mode is active, clicks on the
\* engine's control alone lead to a state in which it is not.
C40_ToggleOffEnabled ==
  /\ AnyActive(float)
     => \E f \in FloatByControls({float}, MaxControlClicks) : ~AnyActive(f)
  /\ ToggleOffEnabled
====
